---- MODULE Spec2Model ----
(***************************************************************************)
(* Graph compiler of NeuroBlocks: validate_graph, topological_sort,       *)
(* infer_shapes and DynamicModel.forward, modelled from                   *)
(* NeuralCanvas/backend/app/compiler and backend/compiler; the validate   *)
(* endpoint; the training job registry and the local training loop of     *)
(* backend/routers/training.py and backend/training/trainer.py; the       *)
(* graph normalizers of backend/compiler/normalize_graph.py.              *)
(***************************************************************************)
EXTENDS Integers, Sequences, FiniteSets, TLC

VARIABLES graph, pc, verdict, topo_order, shapes, outputs, pos, fwd,
          layers, sizes, x_shape, response,
          pending_jobs, stop_events, is_set, active_connections, ws, loop,
          next_job, train_calls, answer, norm,
          thread, ready, message_queue, train_future, relay, stop_event,
          emitted, delivered

\* what a compile request carries, and the state of the training router
compileVars == <<graph, pc, verdict, topo_order, shapes, outputs, pos, fwd,
                 layers, sizes, x_shape, response>>
trainVars == <<pending_jobs, stop_events, is_set, active_connections, ws, loop,
               next_job, train_calls, answer>>

\* a call of a graph normalizer
normVars == <<norm>>

\* one call of train_model: the worker thread, the callbacks of the event
\* loop, the message queue, the future of the thread and the relay
relayVars == <<thread, ready, message_queue, train_future, relay, stop_event,
               emitted, delivered>>

vars == <<compileVars, trainVars, normVars, relayVars>>

-----------------------------------------------------------------------------
(* Bounds of the explored requests *)

MaxNodes == 3
MaxEdges == 3
MaxSize == 6
MaxDim == 2
MaxParam == 2
MaxBatch == 2
MaxJobs == 1
MaxEpochs == 2
MaxTrainBatches == 2
MaxValBatches == 2
MaxOtherNodes == 1

-----------------------------------------------------------------------------
(* Python values *)

\* Python's None where a string is expected (ValidationError.node_id, src)
NoId == "<None>"

\* truth value of a str: the empty string is falsy (`if src:`)
Truthy(s) == s # NoId /\ s # ""

\* the ids a request can use; the empty string is a legal pydantic str
IdPool == <<"a", "b", "c">>
FalsyPool == <<"", "b", "c">>

Range(s) == {s[i] : i \in 1..Len(s)}

\* dict.get(key, default)
Get(p, key, default) == IF key \in DOMAIN p THEN p[key] ELSE default

NoParams == [k \in {} |-> 0]

-----------------------------------------------------------------------------
(* schemas.py *)

GraphNode(id, type, params) == [id |-> id, type |-> type, params |-> params]
GraphEdge(source, target) == [source |-> source, target |-> target]
GraphSchema(nodes, edges) == [nodes |-> nodes, edges |-> edges]

\* keys of {n.id: ... for n in graph.nodes}, in insertion order
RECURSIVE DictKeys(_, _)
DictKeys(nodes, i) ==
    IF i = 0 THEN <<>>
    ELSE LET before == DictKeys(nodes, i - 1)
         IN IF nodes[i].id \in Range(before) THEN before
            ELSE Append(before, nodes[i].id)

NodeIds(g) == DictKeys(g.nodes, Len(g.nodes))

\* nodes_by_id = {n.id: n for n in graph.nodes}: the last entry of an id wins
nodes_by_id(g) ==
    [id \in Range(NodeIds(g)) |->
        LET last == CHOOSE i \in 1..Len(g.nodes) :
                        /\ g.nodes[i].id = id
                        /\ \A j \in (i + 1)..Len(g.nodes) : g.nodes[j].id # id
        IN g.nodes[last]]

-----------------------------------------------------------------------------
(* validator.py *)

RECURSIVE SelectSources(_, _, _)
SelectSources(edges, node_id, i) ==
    IF i > Len(edges) THEN <<>>
    ELSE IF edges[i].target = node_id
         THEN <<edges[i].source>> \o SelectSources(edges, node_id, i + 1)
         ELSE SelectSources(edges, node_id, i + 1)

\* get_input_nodes: [e.source for e in graph.edges if e.target == node_id]
get_input_nodes(g, node_id) == SelectSources(g.edges, node_id, 1)

\* get_input_node: sources[0] if sources else None
get_input_node(g, node_id) ==
    LET sources == get_input_nodes(g, node_id)
    IN IF Len(sources) > 0 THEN sources[1] ELSE NoId

RECURSIVE SelectTargets(_, _, _)
SelectTargets(edges, node_id, i) ==
    IF i > Len(edges) THEN <<>>
    ELSE IF edges[i].source = node_id
         THEN <<edges[i].target>> \o SelectTargets(edges, node_id, i + 1)
         ELSE SelectTargets(edges, node_id, i + 1)

\* adj[node_id] once every edge has been appended
Adj(g, node_id) == SelectTargets(g.edges, node_id, 1)

\* index of the first edge with an endpoint outside nodes_by_id, 0 if none
FirstBadEdge(g) ==
    LET ids == Range(NodeIds(g))
        bad == {i \in 1..Len(g.edges) :
                   g.edges[i].source \notin ids \/ g.edges[i].target \notin ids}
    IN IF bad = {} THEN 0 ELSE CHOOSE i \in bad : \A j \in bad : i <= j

WHITE == 0
GRAY == 1
BLACK == 2

\* dfs(node_id) -> bool, with the colour map it leaves behind
RECURSIVE dfs(_, _, _)
RECURSIVE DfsNeighbors(_, _, _, _)
dfs(g, node_id, color) ==
    DfsNeighbors(g, node_id, 1, [color EXCEPT ![node_id] = GRAY])

\* DfsNeighbors testing the neighbour for BLACK where the code tests for GRAY
DfsNeighborsBlack(g, node_id, i, color) ==
    LET nbrs == Adj(g, node_id)
    IN IF i > Len(nbrs)
       THEN [found |-> FALSE, color |-> [color EXCEPT ![node_id] = BLACK]]
       ELSE IF color[nbrs[i]] = BLACK
            THEN [found |-> TRUE, color |-> color]
            ELSE IF color[nbrs[i]] = WHITE
                 THEN LET r == dfs(g, nbrs[i], color)
                      IN IF r.found THEN r
                         ELSE DfsNeighbors(g, node_id, i + 1, r.color)
                 ELSE DfsNeighbors(g, node_id, i + 1, color)

DfsNeighbors(g, node_id, i, color) ==
    LET nbrs == Adj(g, node_id)
    IN IF i > Len(nbrs)
       THEN [found |-> FALSE, color |-> [color EXCEPT ![node_id] = BLACK]]
       ELSE IF color[nbrs[i]] = GRAY
            THEN [found |-> TRUE, color |-> color]
            ELSE IF color[nbrs[i]] = WHITE
                 THEN LET r == dfs(g, nbrs[i], color)
                      IN IF r.found THEN r
                         ELSE DfsNeighbors(g, node_id, i + 1, r.color)
                 ELSE DfsNeighbors(g, node_id, i + 1, color)

\* for node in graph.nodes: if color[node.id] == WHITE: if dfs(node.id): raise
RECURSIVE CycleScan(_, _, _)
CycleScan(g, i, color) ==
    IF i > Len(g.nodes) THEN FALSE
    ELSE IF color[g.nodes[i].id] = WHITE
         THEN LET r == dfs(g, g.nodes[i].id, color)
              IN IF r.found THEN TRUE ELSE CycleScan(g, i + 1, r.color)
         ELSE CycleScan(g, i + 1, color)

\* the cycle scan left out
HasCycleNever(g) == FALSE

HasCycle(g) == CycleScan(g, 1, [id \in Range(NodeIds(g)) |-> WHITE])

\* the stack loop of the connectivity check
RECURSIVE ReachLoop(_, _, _)
ReachLoop(g, stack, reachable) ==
    IF Len(stack) = 0 THEN reachable
    ELSE LET current == stack[Len(stack)]
             rest == SubSeq(stack, 1, Len(stack) - 1)
         IN IF current \in reachable THEN ReachLoop(g, rest, reachable)
            ELSE ReachLoop(g, rest \o Adj(g, current), reachable \cup {current})

Reachable(g, from) == ReachLoop(g, <<from>>, {})

\* the node types a message lists after its fixed text, each with the number
\* of times it is listed; the order a Python set yields them in is left open
NoLabels == [t \in {} |-> 0]
Labels(g, ids) ==
    [t \in {nodes_by_id(g)[id].type : id \in ids} |->
        Cardinality({id \in ids : nodes_by_id(g)[id].type = t})]

Ok == [ok |-> TRUE, message |-> "OK", node_id |-> NoId, labels |-> NoLabels]
\* validate_graph has not been called
Pending == [ok |-> FALSE, message |-> "", node_id |-> NoId, labels |-> NoLabels]
ValidationError(message, node_id) ==
    [ok |-> FALSE, message |-> message, node_id |-> node_id, labels |-> NoLabels]
\* f"Nodes not reachable from Input: {', '.join(labels)}"
UnreachableError(g, unreachable) ==
    [ok |-> FALSE, message |-> "Nodes not reachable from Input",
     node_id |-> NoId, labels |-> Labels(g, unreachable)]

\* flipped form of the check of one node: an add node passes with two
\* incoming edges or more
ArityFailsAddAtLeastTwo(g, i) ==
    LET node == g.nodes[i]
        n == Len(get_input_nodes(g, node.id))
    IN IF node.type = "input" THEN FALSE
       ELSE IF node.type \in {"add", "concat"} THEN n < 2
       ELSE n = 0

\* whether node i fails the incoming-edge check
ArityFails(g, i) ==
    LET node == g.nodes[i]
        n == Len(get_input_nodes(g, node.id))
    IN IF node.type = "input" THEN FALSE
       ELSE IF node.type = "add" THEN n # 2
       ELSE IF node.type = "concat" THEN n < 2
       ELSE n = 0

\* index of the first node that fails the incoming-edge check, 0 if none
FirstArityFail(g) ==
    LET bad == {i \in 1..Len(g.nodes) : ArityFails(g, i)}
    IN IF bad = {} THEN 0 ELSE CHOOSE i \in bad : \A j \in bad : i <= j

ArityError(g, i) ==
    LET node == g.nodes[i]
    IN IF node.type = "add"
       THEN ValidationError("Add node requires exactly 2 inputs", node.id)
       ELSE IF node.type = "concat"
            THEN ValidationError("Concat node requires at least 2 inputs", node.id)
            ELSE [ValidationError("node has no input connection", node.id)
                     EXCEPT !.labels = (node.type :> 1)]

\* flipped form: the nodes of a type counted in nodes_by_id, where the last
\* node of an id stands for all of them
TypeIndexesByDict(g, type) ==
    {i \in 1..Len(g.nodes) :
        /\ g.nodes[i].type = type
        /\ \A j \in (i + 1)..Len(g.nodes) : g.nodes[j].id # g.nodes[i].id}

TypeIndexes(g, type) == {i \in 1..Len(g.nodes) : g.nodes[i].type = type}
First(S) == CHOOSE i \in S : \A j \in S : i <= j

validate_graph(g) ==
    LET input_nodes == TypeIndexes(g, "input")
        output_nodes == TypeIndexes(g, "output")
    IN IF Len(g.nodes) = 0 THEN ValidationError("Graph has no nodes", NoId)
       ELSE IF Cardinality(input_nodes) = 0
            THEN ValidationError("Graph must have an Input node", NoId)
       ELSE IF Cardinality(input_nodes) > 1
            THEN ValidationError("Graph must have exactly one Input node", NoId)
       ELSE IF Cardinality(output_nodes) = 0
            THEN ValidationError("Graph must have an Output node", NoId)
       ELSE IF Cardinality(output_nodes) > 1
            THEN ValidationError("Graph must have exactly one Output node", NoId)
       ELSE IF FirstBadEdge(g) # 0
            THEN LET e == g.edges[FirstBadEdge(g)]
                 IN IF e.source \notin Range(NodeIds(g))
                    THEN ValidationError("Edge references unknown source node", NoId)
                    ELSE ValidationError("Edge references unknown target node", NoId)
       ELSE IF HasCycle(g) THEN ValidationError("Graph contains a cycle", NoId)
       ELSE LET input_node == g.nodes[First(input_nodes)]
                output_node == g.nodes[First(output_nodes)]
                reachable == Reachable(g, input_node.id)
            IN IF Range(NodeIds(g)) \ reachable # {}
               THEN UnreachableError(g, Range(NodeIds(g)) \ reachable)
               ELSE IF output_node.id \notin reachable
                    THEN ValidationError("Output node is not reachable from Input", NoId)
               ELSE IF FirstArityFail(g) # 0
                    THEN ArityError(g, FirstArityFail(g))
               ELSE Ok

\* for neighbor in adj[node]: in_degree[neighbor] -= 1; enqueue at zero
RECURSIVE Relax(_, _, _, _)
\* Relax enqueueing a neighbour already at in-degree one
RelaxEarly(nbrs, i, in_degree, queue) ==
    IF i > Len(nbrs) THEN [in_degree |-> in_degree, queue |-> queue]
    ELSE LET d == in_degree[nbrs[i]] - 1
         IN Relax(nbrs, i + 1, [in_degree EXCEPT ![nbrs[i]] = d],
                  IF d \in {0, 1} THEN Append(queue, nbrs[i]) ELSE queue)

Relax(nbrs, i, in_degree, queue) ==
    IF i > Len(nbrs) THEN [in_degree |-> in_degree, queue |-> queue]
    ELSE LET d == in_degree[nbrs[i]] - 1
         IN Relax(nbrs, i + 1, [in_degree EXCEPT ![nbrs[i]] = d],
                  IF d = 0 THEN Append(queue, nbrs[i]) ELSE queue)

\* while queue: node = queue.pop(0); result.append(node); ...
RECURSIVE KahnLoop(_, _, _, _)
KahnLoop(g, queue, in_degree, result) ==
    IF Len(queue) = 0 THEN result
    ELSE LET node == Head(queue)
             r == Relax(Adj(g, node), 1, in_degree, Tail(queue))
         IN KahnLoop(g, r.queue, r.in_degree, Append(result, node))

InDegree(g) ==
    [id \in Range(NodeIds(g)) |-> Len(get_input_nodes(g, id))]

\* queue = [nid for nid, deg in in_degree.items() if deg == 0]
RECURSIVE ZeroDegree(_, _, _)
\* ZeroDegree seeding the queue with every node of in-degree at most one
ZeroDegreeOffByOne(ids, in_degree, i) ==
    IF i > Len(ids) THEN <<>>
    ELSE IF in_degree[ids[i]] <= 1
         THEN <<ids[i]>> \o ZeroDegree(ids, in_degree, i + 1)
         ELSE ZeroDegree(ids, in_degree, i + 1)

ZeroDegree(ids, in_degree, i) ==
    IF i > Len(ids) THEN <<>>
    ELSE IF in_degree[ids[i]] = 0
         THEN <<ids[i]>> \o ZeroDegree(ids, in_degree, i + 1)
         ELSE ZeroDegree(ids, in_degree, i + 1)

\* topological_sort; adj[edge.source] and in_degree[edge.target] raise
\* KeyError on an id that is no node
topological_sort(g) ==
    IF FirstBadEdge(g) # 0 THEN [raised |-> "KeyError", order |-> <<>>]
    ELSE [raised |-> "",
          order |-> KahnLoop(g, ZeroDegree(NodeIds(g), InDegree(g), 1),
                             InDegree(g), <<>>)]

-----------------------------------------------------------------------------
(* shape_inference.py *)

\* Python's // : floor division, b # 0
FloorDiv(a, b) == IF b > 0 THEN a \div b ELSE (-a) \div (-b)

RECURSIVE Prod(_)
Prod(s) == IF Len(s) = 0 THEN 1 ELSE Head(s) * Prod(Tail(s))

\* seq[i] of a Python list: negative indexes count from the end
InRange(s, i) == -Len(s) <= i /\ i < Len(s)
PyIndex(s, i) == IF i >= 0 THEN s[i + 1] ELSE s[Len(s) + i + 1]

Put(m, key, value) ==
    [x \in DOMAIN m \cup {key} |-> IF x = key THEN value ELSE m[x]]

Shaped(map) == [raised |-> "", node_id |-> NoId, shapes |-> map]
ShapeError(node_id, map) ==
    [raised |-> "ShapeError", node_id |-> node_id, shapes |-> map]
Crash(kind, node_id, map) ==
    [raised |-> kind, node_id |-> node_id, shapes |-> map]

DefaultShape == <<1, 28, 28>>

Elementwise == {"relu", "gelu", "sigmoid", "tanh", "dropout"}
Normalization == {"batchnorm", "layernorm"}

\* SpatialOut adding the padding once instead of on both sides
SpatialOutOnePad(size, k, s, pad) == FloorDiv(size + pad - k, s) + 1

\* the spatial rule of conv2d and maxpool2d
SpatialOut(size, k, s, pad) == FloorDiv(size + 2 * pad - k, s) + 1

\* first axis below min(len(reference), len(s)) on which zip finds a mismatch
ZipMismatch(reference, s, dim) ==
    \E i \in 1..Len(reference) :
        i <= Len(s) /\ (i - 1) # dim /\ reference[i] # s[i]

RECURSIVE SumAt(_, _)
SumAt(in_shapes, dim) ==
    IF Len(in_shapes) = 0 THEN 0
    ELSE PyIndex(Head(in_shapes), dim) + SumAt(Tail(in_shapes), dim)

ConcatRule(node_id, p, in_shapes, map) ==
    LET dim == Get(p, "dim", 0)
        reference == in_shapes[1]
    IN IF \E j \in 2..Len(in_shapes) : ZipMismatch(reference, in_shapes[j], dim)
       THEN ShapeError(node_id, map)
       ELSE IF \E j \in 1..Len(in_shapes) : ~InRange(in_shapes[j], dim)
            THEN Crash("IndexError", node_id, map)
            ELSE LET at == IF dim >= 0 THEN dim + 1 ELSE Len(reference) + dim + 1
                 IN Shaped(Put(map, node_id,
                        [reference EXCEPT ![at] = SumAt(in_shapes, dim)]))

\* one iteration of `for node_id in topo_order`
InferNode(g, node_id, map) ==
    LET node == nodes_by_id(g)[node_id]
        p == node.params
        src == get_input_node(g, node_id)
        srcs == get_input_nodes(g, node_id)
        missing == src = NoId \/ src \notin DOMAIN map
    IN CASE node.type = "input" ->
              Shaped(Put(map, node_id, Get(p, "shape", DefaultShape)))
         [] node.type = "output" ->
              IF Truthy(src) /\ src \in DOMAIN map
              THEN Shaped(Put(map, node_id, map[src])) ELSE Shaped(map)
         [] node.type = "linear" ->
              IF missing THEN ShapeError(node_id, map)
              ELSE IF Len(map[src]) = 0 THEN Crash("IndexError", node_id, map)
              ELSE Shaped(Put(map, node_id, <<Get(p, "out_features", 128)>>))
         [] node.type = "conv2d" ->
              IF missing THEN ShapeError(node_id, map)
              ELSE IF Len(map[src]) # 3 THEN ShapeError(node_id, map)
              ELSE LET c_out == Get(p, "out_channels", 32)
                       k == Get(p, "kernel_size", 3)
                       s == Get(p, "stride", 1)
                       pad == Get(p, "padding", 0)
                   IN IF s = 0 THEN Crash("ZeroDivisionError", node_id, map)
                      ELSE LET h_out == SpatialOut(map[src][2], k, s, pad)
                               w_out == SpatialOut(map[src][3], k, s, pad)
                           IN IF h_out <= 0 \/ w_out <= 0
                              THEN ShapeError(node_id, map)
                              ELSE Shaped(Put(map, node_id, <<c_out, h_out, w_out>>))
         [] node.type = "maxpool2d" ->
              IF missing THEN ShapeError(node_id, map)
              ELSE IF Len(map[src]) # 3 THEN ShapeError(node_id, map)
              ELSE LET k == Get(p, "kernel_size", 2)
                       s == Get(p, "stride", k)
                   IN IF s = 0 THEN Crash("ZeroDivisionError", node_id, map)
                      ELSE LET h_out == SpatialOut(map[src][2], k, s, 0)
                               w_out == SpatialOut(map[src][3], k, s, 0)
                           IN IF h_out <= 0 \/ w_out <= 0
                              THEN ShapeError(node_id, map)
                              ELSE Shaped(Put(map, node_id,
                                              <<map[src][1], h_out, w_out>>))
         [] node.type = "adaptiveavgpool2d" ->
              IF missing THEN ShapeError(node_id, map)
              ELSE IF Len(map[src]) # 3 THEN ShapeError(node_id, map)
              ELSE LET out_size == Get(p, "output_size", <<1, 1>>)
                   IN Shaped(Put(map, node_id,
                                 <<map[src][1], out_size[1], out_size[2]>>))
         [] node.type = "flatten" ->
              IF missing THEN ShapeError(node_id, map)
              ELSE Shaped(Put(map, node_id, <<Prod(map[src])>>))
         [] node.type \in Elementwise \cup Normalization ->
              IF missing THEN ShapeError(node_id, map)
              ELSE Shaped(Put(map, node_id, map[src]))
         [] node.type = "add" ->
              IF Len(srcs) # 2 THEN ShapeError(node_id, map)
              ELSE IF srcs[1] \notin DOMAIN map \/ srcs[2] \notin DOMAIN map
                   THEN ShapeError(node_id, map)
              ELSE IF map[srcs[1]] # map[srcs[2]] THEN ShapeError(node_id, map)
              ELSE Shaped(Put(map, node_id, map[srcs[1]]))
         [] node.type = "concat" ->
              IF Len(srcs) < 2 THEN ShapeError(node_id, map)
              ELSE IF \E j \in 1..Len(srcs) : srcs[j] \notin DOMAIN map
                   THEN ShapeError(node_id, map)
              ELSE ConcatRule(node_id, p, [j \in 1..Len(srcs) |-> map[srcs[j]]], map)
         [] OTHER ->
              IF Truthy(src) /\ src \in DOMAIN map
              THEN Shaped(Put(map, node_id, map[src])) ELSE Shaped(map)

RECURSIVE InferLoop(_, _, _, _)
InferLoop(g, order, i, map) ==
    IF i > Len(order) THEN Shaped(map)
    ELSE LET r == InferNode(g, order[i], map)
         IN IF r.raised # "" THEN r ELSE InferLoop(g, order, i + 1, r.shapes)

EmptyMap == [x \in {} |-> <<>>]

infer_shapes(g) ==
    LET sorted == topological_sort(g)
    IN IF sorted.raised # "" THEN Crash(sorted.raised, NoId, EmptyMap)
       ELSE InferLoop(g, sorted.order, 1, EmptyMap)

-----------------------------------------------------------------------------
(* model_builder.py *)

\* a tensor is known by the node that produced it and what it was made from
X == [by |-> "x", of |-> <<>>]
Tensor(node_id, inputs) == [by |-> node_id, of |-> inputs]

Idle == [status |-> "idle", error |-> "", result |-> X]
Running == [status |-> "running", error |-> "", result |-> X]
Returned(t) == [status |-> "returned", error |-> "", result |-> t]
Raised(error) == [status |-> "raised", error |-> error, result |-> X]

NoOutputs == [x \in {} |-> X]

\* one iteration of `for node_id in self.topo_order` in forward, as the pair
\* of the outputs dict it leaves and how the call goes on
ForwardNode(g, node_id, outs) ==
    LET node == nodes_by_id(g)[node_id]
        src == get_input_node(g, node_id)
        srcs == get_input_nodes(g, node_id)
        go(t) == [outputs |-> Put(outs, node_id, t), fwd |-> Running]
        stop(f) == [outputs |-> outs, fwd |-> f]
    IN CASE node.type = "input" -> go(X)
         [] node.type = "output" ->
              IF Truthy(src)
              THEN IF src \in DOMAIN outs THEN stop(Returned(outs[src]))
                   ELSE stop(Raised("KeyError"))
              ELSE stop(Raised("Output node has no input"))
         [] node.type = "add" ->
              IF Len(srcs) < 2 THEN stop(Raised("IndexError"))
              ELSE IF srcs[1] \notin DOMAIN outs \/ srcs[2] \notin DOMAIN outs
                   THEN stop(Raised("KeyError"))
                   ELSE go(Tensor(node_id, <<outs[srcs[1]], outs[srcs[2]]>>))
         [] node.type = "concat" ->
              IF \E j \in 1..Len(srcs) : srcs[j] \notin DOMAIN outs
              THEN stop(Raised("KeyError"))
              ELSE IF Len(srcs) = 0 THEN stop(Raised("torch.cat"))
              ELSE go(Tensor(node_id, [j \in 1..Len(srcs) |-> outs[srcs[j]]]))
         [] OTHER ->
              IF src = NoId THEN stop(Raised("has no input"))
              ELSE IF src \notin DOMAIN outs THEN stop(Raised("KeyError"))
              ELSE go(Tensor(node_id, <<outs[src]>>))

-----------------------------------------------------------------------------
(* model_builder.py: the layers DynamicModel.__init__ builds, and what    *)
(* the torch.nn operations they stand for do to the shape of a tensor     *)

\* the two DynamicModel classes of the repository
App == "NeuralCanvas/backend/app"
Backend == "backend"

\* a torch.nn constructor whose weight would have a negative dimension
Fault == [kind |-> "raise"]
NoLayer == [kind |-> "None"]
Identity == [kind |-> "Identity"]

Linear(in_features, out_features) ==
    IF in_features < 0 \/ out_features < 0 THEN Fault
    ELSE [kind |-> "Linear", in_features |-> in_features,
          out_features |-> out_features]

Conv2d(in_channels, out_channels, kernel_size, stride, padding) ==
    IF in_channels < 0 \/ out_channels < 0 \/ kernel_size < 0 THEN Fault
    ELSE [kind |-> "Conv2d", in_channels |-> in_channels,
          out_channels |-> out_channels, kernel_size |-> kernel_size,
          stride |-> stride, padding |-> padding]

MaxPool2d(kernel_size, stride) ==
    [kind |-> "MaxPool2d", kernel_size |-> kernel_size, stride |-> stride]

AdaptiveAvgPool2d(h, w) == [kind |-> "AdaptiveAvgPool2d", h |-> h, w |-> w]

BatchNorm(rank, num_features) ==
    [kind |-> "BatchNorm", rank |-> rank, num_features |-> num_features]

LayerNorm(normalized_shape) ==
    [kind |-> "LayerNorm", normalized_shape |-> normalized_shape]

Pointwise(kind) == [kind |-> kind]

Embedding(num_embeddings, embedding_dim) ==
    IF num_embeddings < 0 \/ embedding_dim < 0 THEN Fault
    ELSE [kind |-> "Embedding", embedding_dim |-> embedding_dim]

\* PositionalEmbedding and PositionalEncoding add a [max_len, d_model] table
Positional(max_len, d_model) ==
    IF max_len < 0 \/ d_model < 0 THEN Fault
    ELSE [kind |-> "Positional", max_len |-> max_len, d_model |-> d_model]

MultiheadAttention(embed_dim, num_heads) ==
    IF embed_dim <= 0 \/ num_heads <= 0 \/ embed_dim % num_heads # 0 THEN Fault
    ELSE [kind |-> "MultiheadAttention", embed_dim |-> embed_dim]

Flatten == [kind |-> "Flatten"]

\* shapes.get(src) if src else None; None and the empty list are both falsy
\* wherever _build_layer tests in_shape
InShape(g, node_id, map) ==
    LET src == get_input_node(g, node_id)
    IN IF Truthy(src) /\ src \in DOMAIN map THEN map[src] ELSE <<>>

\* case "maxpool2d" of _build_layer (the same in both classes)
BuildPool(p) == MaxPool2d(Get(p, "kernel_size", 2), Get(p, "stride", 2))

\* case "linear" of _build_layer: the width nn.Linear is built for
InFeatures(app, in_shape) ==
    IF app = Backend /\ Len(in_shape) = 3 THEN in_shape[3]
    ELSE IF Len(in_shape) > 1 THEN Prod(in_shape)
    ELSE IF Len(in_shape) = 1 THEN in_shape[1]
    ELSE 128

\* DynamicModel._build_layer of either class
build_layer(app, g, node, map) ==
    LET p == node.params
        in_shape == InShape(g, node.id, map)
        out_size == Get(p, "output_size", <<1, 1>>)
    IN CASE node.type \in {"input", "output", "add", "concat"} -> NoLayer
         [] node.type = "text_input" ->
              IF app = Backend THEN NoLayer ELSE Identity
         [] node.type = "linear" ->
              Linear(InFeatures(app, in_shape), Get(p, "out_features", 128))
         [] node.type = "conv2d" ->
              Conv2d(IF Len(in_shape) > 0 THEN in_shape[1] ELSE 1,
                     Get(p, "out_channels", 32), Get(p, "kernel_size", 3),
                     Get(p, "stride", 1), Get(p, "padding", 0))
         [] node.type = "batchnorm" ->
              IF Len(in_shape) >= 2 THEN BatchNorm(4, in_shape[1])
              ELSE IF Len(in_shape) = 1 THEN BatchNorm(2, in_shape[1])
              ELSE Identity
         [] node.type = "layernorm" ->
              IF Len(in_shape) = 0 THEN Identity
              ELSE IF app = Backend /\ Len(in_shape) > 1
                   THEN LayerNorm(<<in_shape[Len(in_shape)]>>)
                   ELSE LayerNorm(in_shape)
         [] node.type \in {"dropout", "relu", "gelu", "sigmoid", "tanh"} ->
              Pointwise(node.type)
         [] node.type = "maxpool2d" -> BuildPool(p)
         [] node.type = "adaptiveavgpool2d" ->
              AdaptiveAvgPool2d(out_size[1], out_size[2])
         [] node.type = "softmax" ->
              IF app = Backend THEN Pointwise("softmax") ELSE Identity
         [] node.type = "flatten" -> Flatten
         [] app = Backend /\ node.type = "embedding" ->
              Embedding(Get(p, "num_embeddings", 10000),
                        Get(p, "embedding_dim", 128))
         [] app = Backend /\ node.type \in {"positional_embedding",
                                            "positional_encoding"} ->
              Positional(Get(p, "max_len", 512), Get(p, "d_model", 128))
         [] app = Backend /\ node.type = "attention" ->
              MultiheadAttention(Get(p, "embed_dim", 128),
                                 Get(p, "num_heads", 4))
         [] OTHER -> Identity

\* the loop of __init__ over topo_order[i..]: self.layers[node_id] = layer.
\* nn.ModuleDict refuses the empty string as a key
RECURSIVE BuildLayers(_, _, _, _, _)
BuildLayers(app, g, order, map, built) ==
    IF order = <<>> THEN [raised |-> "", layers |-> built]
    ELSE LET node_id == Head(order)
             layer == build_layer(app, g, nodes_by_id(g)[node_id], map)
         IN IF layer = Fault
            THEN [raised |-> "RuntimeError", layers |-> built]
            ELSE IF layer = NoLayer
                 THEN BuildLayers(app, g, Tail(order), map, built)
                 ELSE IF node_id = ""
                      THEN [raised |-> "KeyError", layers |-> built]
                      ELSE BuildLayers(app, g, Tail(order), map,
                                       Put(built, node_id, layer))

NoLayers == [x \in {} |-> NoLayer]

\* count_parameters: sum of numel over the parameters of the layers
Numel(layer) ==
    CASE layer.kind = "Linear" ->
           layer.in_features * layer.out_features + layer.out_features
      [] layer.kind = "Conv2d" ->
           layer.out_channels * layer.in_channels * layer.kernel_size
               * layer.kernel_size + layer.out_channels
      [] layer.kind = "BatchNorm" -> 2 * layer.num_features
      [] layer.kind = "LayerNorm" -> 2 * Prod(layer.normalized_shape)
      [] OTHER -> 0

RECURSIVE SumNumel(_, _)
SumNumel(ls, ids) ==
    IF ids = {} THEN 0
    ELSE LET id == CHOOSE x \in ids : TRUE
         IN Numel(ls[id]) + SumNumel(ls, ids \ {id})

count_parameters(ls) == SumNumel(ls, DOMAIN ls)

\* the result of applying an operation to a tensor: its shape, or the
\* RuntimeError torch raises
Sized(shape) == [raised |-> "", shape |-> shape]
TorchError == [raised |-> "RuntimeError", shape |-> <<>>]

Front(s, n) == SubSeq(s, 1, n)
Back(s, n) == SubSeq(s, n + 1, Len(s))

\* size of one spatial axis after a pooling or convolution window
Window(size, k, s, pad) == FloorDiv(size + 2 * pad - k, s) + 1

\* self.layers[node_id](inp) on a tensor of shape t (batch axis first)
Apply(layer, t) ==
    LET n == Len(t)
    IN CASE layer.kind = "Linear" ->
              IF n >= 1 /\ t[n] = layer.in_features
              THEN Sized(Front(t, n - 1) \o <<layer.out_features>>)
              ELSE TorchError
         [] layer.kind = "Conv2d" ->
              IF /\ n \in {3, 4}
                 /\ t[n - 2] = layer.in_channels
                 /\ layer.stride > 0 /\ layer.padding >= 0
                 /\ layer.kernel_size > 0
                 /\ Window(t[n - 1], layer.kernel_size, layer.stride,
                           layer.padding) > 0
                 /\ Window(t[n], layer.kernel_size, layer.stride,
                           layer.padding) > 0
              THEN Sized(Front(t, n - 3) \o
                         <<layer.out_channels,
                           Window(t[n - 1], layer.kernel_size, layer.stride,
                                  layer.padding),
                           Window(t[n], layer.kernel_size, layer.stride,
                                  layer.padding)>>)
              ELSE TorchError
         [] layer.kind = "MaxPool2d" ->
              IF /\ n \in {3, 4}
                 /\ layer.stride > 0 /\ layer.kernel_size > 0
                 /\ Window(t[n - 1], layer.kernel_size, layer.stride, 0) > 0
                 /\ Window(t[n], layer.kernel_size, layer.stride, 0) > 0
              THEN Sized(Front(t, n - 2) \o
                         <<Window(t[n - 1], layer.kernel_size, layer.stride, 0),
                           Window(t[n], layer.kernel_size, layer.stride, 0)>>)
              ELSE TorchError
         [] layer.kind = "AdaptiveAvgPool2d" ->
              IF n \in {3, 4} /\ layer.h >= 0 /\ layer.w >= 0
              THEN Sized(Front(t, n - 2) \o <<layer.h, layer.w>>)
              ELSE TorchError
         [] layer.kind = "BatchNorm" ->
              IF /\ IF layer.rank = 4 THEN n = 4 ELSE n \in {2, 3}
                 /\ t[2] = layer.num_features
              THEN Sized(t) ELSE TorchError
         [] layer.kind = "LayerNorm" ->
              IF /\ n >= Len(layer.normalized_shape)
                 /\ Back(t, n - Len(layer.normalized_shape))
                        = layer.normalized_shape
              THEN Sized(t) ELSE TorchError
         [] layer.kind = "Embedding" -> Sized(t \o <<layer.embedding_dim>>)
         [] layer.kind = "Positional" ->
              IF n = 3 /\ t[2] <= layer.max_len /\ t[3] = layer.d_model
              THEN Sized(t) ELSE TorchError
         [] layer.kind = "MultiheadAttention" ->
              IF n \in {2, 3} /\ t[n] = layer.embed_dim
              THEN Sized(t) ELSE TorchError
         [] layer.kind = "Flatten" ->
              IF n >= 2 THEN Sized(<<t[1], Prod(Back(t, 1))>>) ELSE Sized(t)
         [] OTHER -> Sized(t)

\* shape of a + b under torch's broadcasting, <<>> when the shapes do not fit
PadFront(s, n) == [i \in 1..n |-> IF i <= n - Len(s) THEN 1 ELSE s[i - (n - Len(s))]]

Broadcast(a, b) ==
    LET n == IF Len(a) > Len(b) THEN Len(a) ELSE Len(b)
        pa == PadFront(a, n)
        pb == PadFront(b, n)
    IN IF \A i \in 1..n : pa[i] = pb[i] \/ pa[i] = 1 \/ pb[i] = 1
       THEN Sized([i \in 1..n |-> IF pa[i] = 1 THEN pb[i] ELSE pa[i]])
       ELSE TorchError

RECURSIVE AxisSum(_, _)
AxisSum(ts, axis) ==
    IF Len(ts) = 0 THEN 0 ELSE Head(ts)[axis] + AxisSum(Tail(ts), axis)

\* torch.cat(ts, dim): one rank, equal sizes off the axis, the axis summed
Cat(ts, dim) ==
    LET n == Len(ts[1])
        axis == IF dim < 0 THEN dim + n + 1 ELSE dim + 1
    IN IF /\ \A j \in 1..Len(ts) : Len(ts[j]) = n
          /\ 1 <= axis /\ axis <= n
          /\ \A j \in 1..Len(ts), i \in 1..n : i # axis => ts[j][i] = ts[1][i]
       THEN Sized([i \in 1..n |-> IF i = axis THEN AxisSum(ts, axis) ELSE ts[1][i]])
       ELSE TorchError

\* the linear branch of forward: the app flattens a tensor of rank above 2;
\* the backend applies the layer to [b * seq_len, d] when the rank is 3
ApplyLinear(app, layer, t) ==
    IF app = Backend /\ Len(t) = 3
    THEN LET out == Apply(layer, <<t[1] * t[2], t[3]>>)
         IN IF out.raised # "" THEN out
            ELSE Sized(<<t[1], t[2], out.shape[2]>>)
    ELSE IF Len(t) > 2 THEN Apply(layer, <<t[1], Prod(Back(t, 1))>>)
         ELSE Apply(layer, t)

\* shape of the tensor forward stores in outputs[node_id], x being the shape
\* of its argument and known the shapes of the tensors stored so far
ForwardSize(app, g, node_id, ls, known, x) ==
    LET node == nodes_by_id(g)[node_id]
        src == get_input_node(g, node_id)
        srcs == get_input_nodes(g, node_id)
    IN CASE node.type = "input" -> Sized(x)
         [] node.type = "text_input" /\ app = Backend -> Sized(x)
         [] node.type = "add" -> Broadcast(known[srcs[1]], known[srcs[2]])
         [] node.type = "concat" ->
              Cat([j \in 1..Len(srcs) |-> known[srcs[j]]],
                  Get(node.params, "dim", 1))
         [] node.type = "linear" -> ApplyLinear(app, ls[node_id], known[src])
         [] OTHER -> Apply(ls[node_id], known[src])

\* forward of the backend class: a text_input node is a source too
BackendForwardNode(g, node_id, outs) ==
    IF nodes_by_id(g)[node_id].type = "text_input"
    THEN [outputs |-> Put(outs, node_id, X), fwd |-> Running]
    ELSE ForwardNode(g, node_id, outs)

NoSizes == [x \in {} |-> <<>>]

-----------------------------------------------------------------------------
(* The requests explored *)

Types == {"input", "text_input", "output", "relu", "add"}

IdsOf(nodes) == {nodes[i].id : i \in 1..Len(nodes)}

\* ids are opaque: a node list takes its ids in a fixed order of first use,
\* and the first one may be the empty string
FreshIds(nodes) ==
    LET n == Cardinality(IdsOf(nodes))
    IN IF n = 0 THEN {IdPool[1], FalsyPool[1]}
       ELSE IF n < Len(IdPool) THEN {IdPool[n + 1]} ELSE {}

EdgeIds(nodes) ==
    IF "" \in IdsOf(nodes) THEN Range(FalsyPool) ELSE Range(IdPool)

OneInputOneOutput(nodes) ==
    /\ Cardinality({i \in 1..Len(nodes) : nodes[i].type = "input"}) = 1
    /\ Cardinality({i \in 1..Len(nodes) : nodes[i].type = "output"}) = 1

\* node lists that fail the node-count checks carry at most one edge
EdgeBudget(nodes) ==
    IF OneInputOneOutput(nodes)
    THEN IF MaxSize - Len(nodes) < MaxEdges THEN MaxSize - Len(nodes) ELSE MaxEdges
    ELSE 1

-----------------------------------------------------------------------------
(* The compile pipeline of one request: validate_graph, then build_model  *)
(* (infer_shapes, DynamicModel.__init__), then forward                    *)

\* models/schemas.py ValidationResult; an optional field is the empty set
\* when it is None
ValidationResult(valid, message, map, total_params, errors) ==
    [status |-> "returned", valid |-> valid, message |-> message,
     shapes |-> map, total_params |-> total_params, errors |-> errors]

\* the replies of validate: `e.node_id or ""` in the errors list
Invalid(message, node_id) ==
    ValidationResult(FALSE, message, {}, {},
                     {<<[node_id |-> IF node_id = NoId THEN "" ELSE node_id,
                         message |-> message]>>})
BuildFailed == ValidationResult(FALSE, "Model build failed", {}, {}, {})
Valid(map, total_params) ==
    ValidationResult(TRUE, "OK", {map}, {total_params}, {})

\* validate has not returned yet
NoResponse ==
    [status |-> "pending", valid |-> FALSE, message |-> "",
     shapes |-> {}, total_params |-> {}, errors |-> {}]

\* an exception no except clause of validate catches leaves the handler
Escaped(kind) ==
    [status |-> "escaped", valid |-> FALSE, message |-> kind,
     shapes |-> {}, total_params |-> {}, errors |-> {}]

\* the shape of the tensor a caller passes to forward, without its batch
\* axis: the shape inferred for the input node
InputShape(g) ==
    LET input_nodes == TypeIndexes(g, "input")
    IN IF input_nodes = {} THEN DefaultShape
       ELSE LET id == g.nodes[First(input_nodes)].id
            IN IF id \in DOMAIN shapes.shapes THEN shapes.shapes[id]
               ELSE DefaultShape

Start(g, at) ==
    /\ graph = g
    /\ pc = at
    /\ verdict = Pending
    /\ topo_order = <<>>
    /\ shapes = Shaped(EmptyMap)
    /\ outputs = NoOutputs
    /\ pos = 0
    /\ fwd = Idle
    /\ layers = NoLayers
    /\ sizes = NoSizes
    /\ x_shape = <<>>
    /\ response = NoResponse

\* no training job yet
NoJobs ==
    /\ pending_jobs = <<>>
    /\ stop_events = {}
    /\ is_set = <<>>
    /\ active_connections = {}
    /\ ws = <<>>
    /\ loop = <<>>
    /\ next_job = 1
    /\ train_calls = <<>>
    /\ answer = [op |-> "", job |-> 0, status |-> ""]

\* no normalizer call
NotNormalizing == norm = [fn |-> ""]

\* no call of train_model
NotRelaying ==
    /\ thread = [at |-> "none"]
    /\ ready = <<>>
    /\ message_queue = <<>>
    /\ train_future = "none"
    /\ relay = [at |-> "none"]
    /\ stop_event = FALSE
    /\ emitted = <<>>
    /\ delivered = <<>>

Init ==
    /\ Start(GraphSchema(<<>>, <<>>), "building")
    /\ NoJobs
    /\ NotNormalizing
    /\ NotRelaying

\* the client puts a node on the canvas
AddNode ==
    /\ pc = "building"
    /\ Len(graph.nodes) < MaxNodes
    /\ Len(graph.edges) = 0
    /\ \E id \in IdsOf(graph.nodes) \cup FreshIds(graph.nodes), t \in Types :
           graph' = [graph EXCEPT !.nodes = Append(@, GraphNode(id, t, NoParams))]
    /\ UNCHANGED <<pc, verdict, topo_order, shapes, outputs, pos, fwd,
                   layers, sizes, x_shape, response>>

\* the client draws an edge
AddEdge ==
    /\ pc = "building"
    /\ Len(graph.edges) < EdgeBudget(graph.nodes)
    /\ \E s \in EdgeIds(graph.nodes), t \in EdgeIds(graph.nodes) :
           graph' = [graph EXCEPT !.edges = Append(@, GraphEdge(s, t))]
    /\ UNCHANGED <<pc, verdict, topo_order, shapes, outputs, pos, fwd,
                   layers, sizes, x_shape, response>>

\* routers/graphs.py validate: validate_graph(graph)
Validate ==
    /\ pc \in {"building", "request"}
    /\ verdict' = validate_graph(graph)
    /\ pc' = IF verdict'.ok THEN "validated" ELSE "rejected"
    /\ response' = IF verdict'.ok THEN response
                   ELSE Invalid(verdict'.message, verdict'.node_id)
    /\ UNCHANGED <<graph, topo_order, shapes, outputs, pos, fwd,
                   layers, sizes, x_shape>>

\* routers/graphs.py validate, after validate_graph returned:
\* shapes = infer_shapes(graph, input_shape)
InferShapes ==
    /\ pc = "validated"
    /\ shapes' = infer_shapes(graph)
    /\ pc' = IF shapes'.raised = "" THEN "shaped" ELSE "failed"
    /\ response' = IF shapes'.raised = "" THEN response
                   ELSE IF shapes'.raised = "ShapeError"
                        THEN Invalid("ShapeError", shapes'.node_id)
                        ELSE Escaped(shapes'.raised)
    /\ UNCHANGED <<graph, verdict, topo_order, outputs, pos, fwd,
                   layers, sizes, x_shape>>

\* training/inference.py: build_model(graph_json) on a graph nobody validated
InferUnchecked ==
    /\ pc \in {"building", "request"}
    /\ shapes' = infer_shapes(graph)
    /\ pc' = IF shapes'.raised = "" THEN "shaped" ELSE "failed"
    /\ UNCHANGED <<graph, verdict, topo_order, outputs, pos, fwd,
                   layers, sizes, x_shape, response>>

\* the class a request instantiates: the app's validate endpoint builds the
\* app's DynamicModel, training/inference.py the backend's
Class == IF verdict.ok THEN App ELSE Backend

\* DynamicModel.__init__: self.topo_order = topological_sort(graph), then
\* the layers; in the validate endpoint, followed by count_parameters and
\* the reply
ModelInit ==
    /\ pc = "shaped"
    /\ topo_order' = topological_sort(graph).order
    /\ LET b == BuildLayers(Class, graph, topo_order', shapes.shapes, NoLayers)
       IN /\ layers' = b.layers
          /\ pc' = IF b.raised = "" THEN "built" ELSE "build_failed"
          /\ response' =
                 IF ~verdict.ok THEN response
                 ELSE IF b.raised # "" THEN BuildFailed
                 ELSE Valid(shapes.shapes, count_parameters(b.layers))
    /\ UNCHANGED <<graph, verdict, shapes, outputs, pos, fwd, sizes, x_shape>>

\* forward is called: outputs = {}
ForwardCall ==
    /\ pc = "built"
    /\ fwd.status = "idle"
    /\ outputs' = NoOutputs
    /\ sizes' = NoSizes
    /\ \E batch \in 1..MaxBatch : x_shape' = <<batch>> \o InputShape(graph)
    /\ pos' = 1
    /\ fwd' = Running
    /\ UNCHANGED <<graph, pc, verdict, topo_order, shapes, layers, response>>

\* one iteration of the loop of forward
ForwardStep ==
    /\ fwd.status = "running"
    /\ pos <= Len(topo_order)
    /\ LET node_id == topo_order[pos]
           r == IF Class = Backend
                THEN BackendForwardNode(graph, node_id, outputs)
                ELSE ForwardNode(graph, node_id, outputs)
           s == ForwardSize(Class, graph, node_id, layers, sizes, x_shape)
       IN IF r.fwd.status # "running"
          THEN /\ outputs' = r.outputs
               /\ fwd' = r.fwd
               /\ UNCHANGED <<pos, sizes>>
          ELSE IF s.raised # ""
               THEN /\ fwd' = Raised(s.raised)
                    /\ UNCHANGED <<outputs, pos, sizes>>
               ELSE /\ outputs' = r.outputs
                    /\ sizes' = Put(sizes, node_id, s.shape)
                    /\ fwd' = r.fwd
                    /\ pos' = pos + 1
    /\ UNCHANGED <<graph, pc, verdict, topo_order, shapes, layers, x_shape, response>>

\* the loop ends: raise RuntimeError("Graph has no output node")
ForwardFallOff ==
    /\ fwd.status = "running"
    /\ pos > Len(topo_order)
    /\ fwd' = Raised("Graph has no output node")
    /\ UNCHANGED <<graph, pc, verdict, topo_order, shapes, outputs, pos,
                   layers, sizes, x_shape, response>>

Next ==
    \/ AddNode /\ UNCHANGED <<trainVars, normVars, relayVars>>
    \/ AddEdge /\ UNCHANGED <<trainVars, normVars, relayVars>>
    \/ Validate /\ UNCHANGED <<trainVars, normVars, relayVars>>
    \/ InferShapes /\ UNCHANGED <<trainVars, normVars, relayVars>>
    \/ InferUnchecked /\ UNCHANGED <<trainVars, normVars, relayVars>>
    \/ ModelInit /\ UNCHANGED <<trainVars, normVars, relayVars>>
    \/ ForwardCall /\ UNCHANGED <<trainVars, normVars, relayVars>>
    \/ ForwardStep /\ UNCHANGED <<trainVars, normVars, relayVars>>
    \/ ForwardFallOff /\ UNCHANGED <<trainVars, normVars, relayVars>>

Spec == Init /\ [][Next]_vars

-----------------------------------------------------------------------------
(* Properties of the validator, the sorter and forward *)

Accepted == verdict.ok

NodeType(id) == nodes_by_id(graph)[id].type

Positions(order, id) == {i \in 1..Len(order) : order[i] = id}

EdgePairs(g) == {<<g.edges[i].source, g.edges[i].target>> : i \in 1..Len(g.edges)}

\* transitive closure of a relation, by iteration to the fixed point
RECURSIVE Closure(_)
Closure(R) ==
    LET step == R \cup {<<q[1][1], q[2][2]>> :
                            q \in {q \in R \X R : q[1][2] = q[2][1]}}
    IN IF step = R THEN R ELSE Closure(step)

\* a directed cycle over two or more distinct ids
OnCycle2(g) ==
    LET C == Closure(EdgePairs(g))
    IN \E p \in C : p[1] # p[2] /\ <<p[2], p[1]>> \in C

\* C1: for every graph validate_graph accepted, the order topological_sort
\* returned holds every node id exactly once and puts the source of every
\* edge strictly before its target
C1_TopologicalValidity ==
    (Accepted /\ pc = "built") =>
        /\ \A id \in IdsOf(graph.nodes) :
               Cardinality(Positions(topo_order, id)) = 1
        /\ Range(topo_order) \subseteq IdsOf(graph.nodes)
        /\ \A e \in 1..Len(graph.edges) :
               \E i \in Positions(topo_order, graph.edges[e].source),
                  j \in Positions(topo_order, graph.edges[e].target) : i < j

\* an accepted graph with a node of two distinct sources, sorted into an
\* order that is not the order of the node list
C1_Witness ==
    /\ Accepted /\ pc = "built"
    /\ Len(topo_order) = 3
    /\ topo_order # NodeIds(graph)
    /\ \E id \in IdsOf(graph.nodes) :
           Cardinality(Range(get_input_nodes(graph, id))) = 2

\* C2: validate_graph never returns normally on a graph that has a directed
\* cycle over two or more nodes, wherever the cycle lies
C2_CycleRejection == Accepted => ~OnCycle2(graph)

\* a rejected graph with one input and one output whose cycle is in a
\* component the input node does not reach
C2_Witness ==
    /\ pc = "rejected"
    /\ verdict.message = "Graph contains a cycle"
    /\ OneInputOneOutput(graph.nodes)
    /\ LET C == Closure(EdgePairs(graph))
           input_id == graph.nodes[First(TypeIndexes(graph, "input"))].id
       IN \E p \in C : /\ p[1] # p[2]
                       /\ <<p[2], p[1]>> \in C
                       /\ <<input_id, p[1]>> \notin C
                       /\ input_id # p[1]

\* C3: every graph validate_graph accepted has pairwise distinct node ids
C3_UniqueIds ==
    Accepted => Cardinality(IdsOf(graph.nodes)) = Len(graph.nodes)

\* C4: on a graph validate_graph accepted, forward never ends in a fault:
\* no missing source tensor, no 'has no input', no 'Graph has no output node'
C4_NoExecutionFault == Accepted => fwd.status # "raised"

\* C5: in every graph validate_graph accepted no edge leaves the output node
C5_OutputIsSink ==
    Accepted =>
        \A e \in 1..Len(graph.edges), i \in TypeIndexes(graph, "output") :
            graph.edges[e].source # graph.nodes[i].id

\* C6: forward stops at the first output node of the order and returns the
\* tensor of the source of the first edge into it; no node behind the output
\* node is evaluated
C6_StopsAtOutput ==
    fwd.status # "idle" =>
        /\ \A j \in 1..(pos - 1) : j <= Len(topo_order) =>
               /\ NodeType(topo_order[j]) # "output"
        /\ DOMAIN outputs \subseteq {topo_order[j] : j \in 1..(pos - 1)}
        /\ (/\ fwd.status # "running"
            /\ pos <= Len(topo_order)
            /\ NodeType(topo_order[pos]) = "output"
            /\ Len(get_input_nodes(graph, topo_order[pos])) > 0) =>
               /\ fwd.status = "returned"
               /\ fwd.result = outputs[get_input_node(graph, topo_order[pos])]

-----------------------------------------------------------------------------
(* Requests with parameters: an input node of a given shape, one or two   *)
(* layers, an output node                                                 *)

Dims == 1..MaxDim
ParamRange == -1..MaxParam

InputShapes ==
    {<<d>> : d \in Dims}
        \cup {<<a, b>> : a \in Dims, b \in Dims}
        \cup {<<c, h, w>> : c \in Dims, h \in Dims, w \in Dims}

Layer(type) == {GraphNode("n1", type, NoParams)}

Conv2dLayers ==
    {GraphNode("n1", "conv2d",
               [out_channels |-> c, kernel_size |-> k, stride |-> s, padding |-> q]) :
         c \in ParamRange, k \in ParamRange, s \in ParamRange, q \in ParamRange}

MaxPool2dLayers ==
    {GraphNode("n1", "maxpool2d", [kernel_size |-> k]) : k \in ParamRange}
        \cup {GraphNode("n1", "maxpool2d", [kernel_size |-> k, stride |-> s]) :
                  k \in ParamRange, s \in ParamRange}

LinearLayers ==
    {GraphNode("n1", "linear", [out_features |-> o]) : o \in ParamRange}

AdaptiveLayers ==
    {GraphNode("n1", "adaptiveavgpool2d", [output_size |-> <<a, b>>]) :
         a \in ParamRange, b \in ParamRange}

\* softmax is a type shape_inference.py has no branch for
Layers ==
    Conv2dLayers \cup MaxPool2dLayers \cup LinearLayers \cup AdaptiveLayers
        \cup Layer("conv2d") \cup Layer("linear") \cup Layer("adaptiveavgpool2d")
        \cup Layer("flatten") \cup Layer("relu") \cup Layer("batchnorm")
        \cup Layer("softmax")

\* the branch of a merge: layers that keep or change the rank of the input
Branches ==
    Layer("flatten") \cup Layer("relu")
        \cup {GraphNode("n1", "linear", [out_features |-> o]) : o \in Dims}
        \cup {GraphNode("n1", "adaptiveavgpool2d", [output_size |-> <<a, b>>]) :
                  a \in Dims, b \in Dims}

Merges ==
    {GraphNode("n2", "add", NoParams), GraphNode("n2", "concat", NoParams)}
        \cup {GraphNode("n2", "concat", [dim |-> d]) : d \in ParamRange}

Edges(pairs) == [i \in 1..Len(pairs) |-> GraphEdge(pairs[i][1], pairs[i][2])]

\* a chain, a layer nothing feeds, an output node nothing feeds
LayerWirings ==
    {Edges(<<<<"in", "n1">>, <<"n1", "out">>>>),
     Edges(<<<<"in", "out">>>>),
     Edges(<<<<"in", "n1">>>>)}

\* the merge fed by the input and the branch in either order, by the branch
\* alone, and by three edges
MergeWirings ==
    {Edges(<<<<"in", "n1">>, <<"in", "n2">>, <<"n1", "n2">>, <<"n2", "out">>>>),
     Edges(<<<<"in", "n1">>, <<"n1", "n2">>, <<"in", "n2">>, <<"n2", "out">>>>),
     Edges(<<<<"in", "n1">>, <<"n1", "n2">>, <<"n2", "out">>>>),
     Edges(<<<<"in", "n1">>, <<"in", "n2">>, <<"n1", "n2">>, <<"in", "n2">>,
             <<"n2", "out">>>>)}

InputNode(shape) == GraphNode("in", "input", [shape |-> shape])
OutputNode == GraphNode("out", "output", NoParams)

InitShape ==
    /\ NoJobs
    /\ NotNormalizing
    /\ NotRelaying
    /\ \E shape \in InputShapes :
        \/ \E n1 \in Layers, es \in LayerWirings :
               Start(GraphSchema(<<InputNode(shape), n1, OutputNode>>, es), "request")
        \/ \E n1 \in Branches, n2 \in Merges, es \in MergeWirings :
               Start(GraphSchema(<<InputNode(shape), n1, n2, OutputNode>>, es),
                     "request")

NextShape ==
    \/ Validate /\ UNCHANGED <<trainVars, normVars, relayVars>>
    \/ InferShapes /\ UNCHANGED <<trainVars, normVars, relayVars>>
    \/ InferUnchecked /\ UNCHANGED <<trainVars, normVars, relayVars>>
    \/ ModelInit /\ UNCHANGED <<trainVars, normVars, relayVars>>
    \/ ForwardCall /\ UNCHANGED <<trainVars, normVars, relayVars>>
    \/ ForwardStep /\ UNCHANGED <<trainVars, normVars, relayVars>>

SpecShape == InitShape /\ [][NextShape]_vars

-----------------------------------------------------------------------------
(* Properties of infer_shapes *)

Inferred == pc \in {"shaped", "failed"}

HasNode(id) == id \in IdsOf(graph.nodes)
ParamsOf(id) == nodes_by_id(graph)[id].params

\* r = floor(a / s) + 1 for s >= 1, said without division
IsFloorPlusOne(r, a, s) == s * (r - 1) <= a /\ a < s * r

\* the conv2d node n1 is fed by the input node, whose shape is [C, H, W],
\* with stride >= 1 and padding >= 0
ConvCase ==
    /\ Inferred
    /\ HasNode("n1")
    /\ NodeType("n1") = "conv2d"
    /\ get_input_node(graph, "n1") = "in"
    /\ Len(ParamsOf("in").shape) = 3
    /\ Get(ParamsOf("n1"), "stride", 1) >= 1
    /\ Get(ParamsOf("n1"), "padding", 0) >= 0

\* C7: a conv2d node on [C, H, W] gets
\* [out_channels, floor((H + 2p - k)/s) + 1, floor((W + 2p - k)/s) + 1] when
\* H + 2p >= k and W + 2p >= k, and a ShapeError with its id otherwise
C7_Conv2dFormula ==
    ConvCase =>
        LET p == ParamsOf("n1")
            in_shape == ParamsOf("in").shape
            k == Get(p, "kernel_size", 3)
            s == Get(p, "stride", 1)
            q == Get(p, "padding", 0)
        IN IF in_shape[2] + 2 * q >= k /\ in_shape[3] + 2 * q >= k
           THEN /\ shapes.raised = ""
                /\ Len(shapes.shapes["n1"]) = 3
                /\ shapes.shapes["n1"][1] = Get(p, "out_channels", 32)
                /\ IsFloorPlusOne(shapes.shapes["n1"][2], in_shape[2] + 2 * q - k, s)
                /\ IsFloorPlusOne(shapes.shapes["n1"][3], in_shape[3] + 2 * q - k, s)
           ELSE /\ shapes.raised = "ShapeError"
                /\ shapes.node_id = "n1"

\* a padded, strided convolution whose division is not exact
C7_Witness ==
    /\ ConvCase
    /\ shapes.raised = ""
    /\ ParamsOf("n1").stride = 2
    /\ ParamsOf("n1").padding = 1
    /\ (ParamsOf("in").shape[2] + 2 - ParamsOf("n1").kernel_size) % 2 = 1
    /\ shapes.shapes["n1"][2] = 2

\* C8: whenever infer_shapes returns a map for an input shape of positive
\* integers, every dimension of every shape in the map is positive
C8_PositiveDims ==
    pc = "shaped" =>
        \A id \in DOMAIN shapes.shapes :
            \A i \in 1..Len(shapes.shapes[id]) : shapes.shapes[id][i] >= 1

\* inference reached the concat node n2, whose axis is counted from the
\* front, with every upstream shape known
ConcatCase ==
    /\ Inferred
    /\ HasNode("n2")
    /\ NodeType("n2") = "concat"
    /\ Get(ParamsOf("n2"), "dim", 0) >= 0
    /\ shapes.raised = "" \/ shapes.node_id = "n2"
    /\ \A j \in 1..Len(get_input_nodes(graph, "n2")) :
           get_input_nodes(graph, "n2")[j] \in DOMAIN shapes.shapes

\* C9: a concat node succeeds only on two or more upstream shapes of one rank
\* that agree off the concat axis, a valid axis of them, and then gets the
\* first shape with that axis summed; anything else is a ShapeError of the node
C9_ConcatRule ==
    ConcatCase =>
        LET srcs == get_input_nodes(graph, "n2")
            ins == [j \in 1..Len(srcs) |-> shapes.shapes[srcs[j]]]
            dim == Get(ParamsOf("n2"), "dim", 0)
            rank == Len(ins[1])
            axis == dim + 1
            fits == /\ Len(srcs) >= 2
                    /\ \A j \in 1..Len(ins) : Len(ins[j]) = rank
                    /\ 1 <= axis /\ axis <= rank
                    /\ \A j \in 1..Len(ins), i \in 1..rank :
                           i # axis => ins[j][i] = ins[1][i]
        IN IF fits
           THEN /\ shapes.raised = ""
                /\ Len(shapes.shapes["n2"]) = rank
                /\ \A i \in 1..rank :
                       shapes.shapes["n2"][i] =
                           IF i = axis THEN SumAt(ins, dim) ELSE ins[1][i]
           ELSE /\ shapes.raised = "ShapeError"
                /\ shapes.node_id = "n2"

Recognised ==
    {"output", "linear", "conv2d", "maxpool2d", "adaptiveavgpool2d", "flatten",
     "add", "concat"} \cup Elementwise \cup Normalization

\* C10: infer_shapes never completes with a visited node of a recognised
\* non-source type that has no incoming edge, or whose upstream shape is not
\* in the map, left out of the map: that is a ShapeError with the node's id
C10_MissingUpstreamRaises ==
    /\ pc = "shaped" =>
           \A id \in Range(topological_sort(graph).order) :
               NodeType(id) \in Recognised =>
                   /\ get_input_node(graph, id) \in DOMAIN shapes.shapes
                   /\ id \in DOMAIN shapes.shapes
    /\ shapes.raised = "ShapeError" => HasNode(shapes.node_id)

-----------------------------------------------------------------------------
(* Properties of the built model *)

\* the model was built for a maxpool2d node n1 whose params give kernel_size
\* and no stride
PoolCase ==
    /\ pc = "built"
    /\ HasNode("n1")
    /\ NodeType("n1") = "maxpool2d"
    /\ "kernel_size" \in DOMAIN ParamsOf("n1")
    /\ "stride" \notin DOMAIN ParamsOf("n1")

\* C11: for a maxpool2d node with kernel_size k and no stride, the pooling
\* operation is built with stride k, and forward gives the node's tensor the
\* spatial sizes infer_shapes predicted for it
C11_PoolStrideDefault ==
    PoolCase =>
        /\ layers["n1"].stride = ParamsOf("n1").kernel_size
        /\ "n1" \in DOMAIN sizes => Back(sizes["n1"], 1) = shapes.shapes["n1"]
        /\ ~(fwd.status = "raised" /\ topo_order[pos] = "n1")

\* the backend's model was built for a linear node n1 fed by the input
\* node, whose entry in the shape map is a sequence shape [seq_len, d]
LinearCase ==
    /\ pc = "built"
    /\ Class = Backend
    /\ HasNode("n1")
    /\ NodeType("n1") = "linear"
    /\ get_input_node(graph, "n1") = "in"
    /\ Len(shapes.shapes["in"]) = 2
    /\ Get(ParamsOf("n1"), "out_features", 128) >= 1

\* C12: a linear node behind a sequence shape [seq_len, d] is built with
\* in_features = d, and forward turns [batch, seq_len, d] into
\* [batch, seq_len, out_features] without raising
C12_LinearOverSequence ==
    LinearCase =>
        /\ layers["n1"].in_features = shapes.shapes["in"][2]
        /\ "n1" \in DOMAIN sizes =>
               sizes["n1"] = <<x_shape[1], shapes.shapes["in"][1],
                               Get(ParamsOf("n1"), "out_features", 128)>>
        /\ ~(fwd.status = "raised" /\ topo_order[pos] = "n1")

-----------------------------------------------------------------------------
(* Properties of the checks of validate_graph *)

Judged == verdict # Pending

InDeg(id) ==
    Cardinality({e \in 1..Len(graph.edges) : graph.edges[e].target = id})

InputId == graph.nodes[First(TypeIndexes(graph, "input"))].id

ValidEndpoints ==
    \A e \in 1..Len(graph.edges) :
        /\ graph.edges[e].source \in IdsOf(graph.nodes)
        /\ graph.edges[e].target \in IdsOf(graph.nodes)

Acyclic == \A p \in Closure(EdgePairs(graph)) : p[1] # p[2]

ReachableId(id) == id = InputId \/ <<InputId, id>> \in Closure(EdgePairs(graph))

\* the graph passes the node-count, edge, cycle and reachability checks
EarlierChecksPass ==
    /\ Len(graph.nodes) > 0
    /\ OneInputOneOutput(graph.nodes)
    /\ ValidEndpoints
    /\ Acyclic
    /\ \A id \in IdsOf(graph.nodes) : ReachableId(id)

BadMerge(i) ==
    \/ graph.nodes[i].type = "add" /\ InDeg(graph.nodes[i].id) # 2
    \/ graph.nodes[i].type = "concat" /\ InDeg(graph.nodes[i].id) < 2

BreaksArity(i) ==
    \/ BadMerge(i)
    \/ /\ graph.nodes[i].type \notin {"input", "add", "concat"}
       /\ InDeg(graph.nodes[i].id) = 0

MergeMessage(type) ==
    IF type = "add" THEN "Add node requires exactly 2 inputs"
    ELSE "Concat node requires at least 2 inputs"

\* C13: in a graph that passes the earlier checks, an add node whose incoming
\* edges (parallel ones counted) are not 2 and a concat node with fewer than
\* 2 make validate_graph reject; the first node of the list that breaks its
\* arity is the one reported, a merge node with the message of its type
\* (which names the arity 2 for add) and its id; and no merge message is
\* ever raised for a node whose arity is right
C13_MergeArity ==
    (Judged /\ EarlierChecksPass) =>
        LET breaking == {i \in 1..Len(graph.nodes) : BreaksArity(i)}
        IN /\ (\E i \in 1..Len(graph.nodes) : BadMerge(i)) => ~verdict.ok
           /\ \A i \in breaking :
                  ((\A j \in breaking : i <= j) /\ BadMerge(i)) =>
                      /\ verdict.message = MergeMessage(graph.nodes[i].type)
                      /\ verdict.node_id = graph.nodes[i].id
           /\ verdict.message \in {MergeMessage("add"), MergeMessage("concat")} =>
                  \E i \in 1..Len(graph.nodes) :
                      /\ BadMerge(i)
                      /\ graph.nodes[i].id = verdict.node_id
                      /\ verdict.message = MergeMessage(graph.nodes[i].type)

\* an add node with three incoming edges, two of them parallel, is rejected
\* with the message of add and its id
C13_Witness ==
    /\ pc = "rejected"
    /\ EarlierChecksPass
    /\ HasNode("n2")
    /\ NodeType("n2") = "add"
    /\ InDeg("n2") = 3
    /\ verdict.message = MergeMessage("add")
    /\ verdict.node_id = "n2"

\* C14: a node of type input or text_input without incoming edge never makes
\* validate_graph raise '<type> node has no input connection'
C14_SourcesExempt ==
    verdict.message = "node has no input connection" =>
        DOMAIN verdict.labels \cap {"input", "text_input"} = {}

NodeCountMessages ==
    {"Graph has no nodes", "Graph must have an Input node",
     "Graph must have exactly one Input node", "Graph must have an Output node",
     "Graph must have exactly one Output node"}

CountOf(type) ==
    Cardinality({i \in 1..Len(graph.nodes) : graph.nodes[i].type = type})

\* C15: the empty graph and every graph whose number of input nodes or of
\* output nodes is not one are rejected with a node-count error, whatever
\* their edges are
C15_NodeCountsFirst ==
    Judged =>
        /\ (Len(graph.nodes) = 0 \/ CountOf("input") # 1 \/ CountOf("output") # 1)
               => ~verdict.ok /\ verdict.message \in NodeCountMessages
        /\ Len(graph.nodes) = 0 => verdict.message = "Graph has no nodes"
        /\ (Len(graph.nodes) > 0 /\ CountOf("input") = 0)
               => verdict.message = "Graph must have an Input node"
        /\ CountOf("input") > 1
               => verdict.message = "Graph must have exactly one Input node"
        /\ (CountOf("input") = 1 /\ CountOf("output") = 0)
               => verdict.message = "Graph must have an Output node"
        /\ (CountOf("input") = 1 /\ CountOf("output") > 1)
               => verdict.message = "Graph must have exactly one Output node"

\* a graph with two input nodes whose only edge is a self-loop on an id no
\* node carries is reported for its node count
C15_Witness ==
    /\ pc = "rejected"
    /\ CountOf("input") = 2
    /\ Len(graph.edges) = 1
    /\ graph.edges[1].source = graph.edges[1].target
    /\ graph.edges[1].source \notin IdsOf(graph.nodes)
    /\ verdict.message = "Graph must have exactly one Input node"

\* C16: an acyclic graph with one input, one output and valid edge endpoints
\* is rejected when some node is not reachable from the input node, with a
\* message that lists the type of every unreachable node and of no other;
\* when every node is reachable neither reachability error is raised
C16_UnreachableRejected ==
    (/\ Judged
     /\ Len(graph.nodes) > 0
     /\ OneInputOneOutput(graph.nodes)
     /\ ValidEndpoints
     /\ Acyclic) =>
        LET lost == {i \in 1..Len(graph.nodes) : ~ReachableId(graph.nodes[i].id)}
        IN IF lost # {}
           THEN /\ ~verdict.ok
                /\ verdict.message = "Nodes not reachable from Input"
                /\ DOMAIN verdict.labels = {graph.nodes[i].type : i \in lost}
           ELSE verdict.message \notin
                    {"Nodes not reachable from Input",
                     "Output node is not reachable from Input"}

\* C17: validate lets no exception escape: a failure of validate_graph,
\* infer_shapes or build_model becomes a reply with valid = false, a message
\* and an errors list, and a reply with valid = true carries a shape map and
\* a parameter count
C17_NoEscape ==
    /\ response.status # "escaped"
    /\ (response.status = "returned" /\ ~response.valid) =>
           response.message # "" /\ response.errors # {}
    /\ (response.status = "returned" /\ response.valid) =>
           response.shapes # {} /\ response.total_params # {}

-----------------------------------------------------------------------------
(* backend/routers/training.py and backend/training/trainer.py: the job   *)
(* registry, the WebSocket handler of a job and the local training loop   *)

Jobs == 1..MaxJobs

\* what a TrainingRequest decides here: whether dataset_id starts with
\* "custom:", config.epochs, len(train_loader) and len(val_loader)
Requests ==
    [custom : BOOLEAN, epochs : 0..MaxEpochs,
     batches : 0..MaxTrainBatches, val_batches : 0..MaxValBatches]

NoRequest == [custom |-> FALSE, epochs |-> 0, batches |-> 0, val_batches |-> 0]

Pop(m, key) == [k \in DOMAIN m \ {key} |-> m[k]]

\* no handler of the job has run
NoHandler == [at |-> "none", request |-> NoRequest, listening |-> FALSE]

\* _train_sync has not been started; `terminal` is the last message of the
\* loop ("error" when it raised), stop_was_set the flag when it was emitted,
\* after_stop the mini-batches begun while the flag was set
NotStarted ==
    [at |-> "idle", epoch |-> 0, batch |-> 0, val |-> 0, terminal |-> "",
     stop_was_set |-> FALSE, after_stop |-> 0]

\* what the last request to the router was answered: the job id and
\* 'stopping' or 404 of the two POSTs, the first message of a WebSocket
NoAnswer == [op |-> "", job |-> 0, status |-> ""]

Answer(op, job, status) == [op |-> op, job |-> job, status |-> status]

InitTrain ==
    /\ Start(GraphSchema(<<>>, <<>>), "training")
    /\ pending_jobs = [j \in {} |-> NoRequest]
    /\ stop_events = {}
    /\ is_set = [j \in Jobs |-> FALSE]
    /\ active_connections = {}
    /\ ws = [j \in Jobs |-> NoHandler]
    /\ loop = [j \in Jobs |-> NotStarted]
    /\ next_job = 1
    /\ train_calls = [j \in Jobs |-> 0]
    /\ answer = NoAnswer
    /\ NotNormalizing
    /\ NotRelaying

\* POST /api/training/start with a graph that validates: the next job id
start_training ==
    /\ next_job <= MaxJobs
    /\ \E request \in Requests :
           pending_jobs' = Put(pending_jobs, next_job, request)
    /\ stop_events' = stop_events \cup {next_job}
    /\ next_job' = next_job + 1
    /\ answer' = Answer("start", next_job, "job_id")
    /\ UNCHANGED <<is_set, active_connections, ws, loop, train_calls>>

\* POST /api/training/{job_id}/stop: 404 for a job id that is not in
\* stop_events, otherwise the event is set
stop_training(j) ==
    /\ IF j \notin stop_events
       THEN /\ answer' = Answer("stop", j, "404")
            /\ UNCHANGED is_set
       ELSE /\ is_set' = [is_set EXCEPT ![j] = TRUE]
            /\ answer' = Answer("stop", j, "stopping")
    /\ UNCHANGED <<pending_jobs, stop_events, active_connections, ws, loop,
                   next_job, train_calls>>

\* training_websocket up to the start of the listener: a job that is not
\* pending gets 'Job not found' and no registry changes; otherwise the
\* request is popped and 'connected' is sent, which raises when the client
\* is gone already. ws[j] is the handler that took the job, train_calls[j]
\* counts its calls of train_model
training_websocket(j) ==
    /\ IF j \notin DOMAIN pending_jobs
       THEN /\ answer' = Answer("connect", j, "Job not found")
            /\ UNCHANGED <<pending_jobs, active_connections, ws>>
       ELSE /\ pending_jobs' = Pop(pending_jobs, j)
            /\ \E connected \in BOOLEAN :
                   IF connected
                   THEN /\ active_connections' = active_connections \cup {j}
                        /\ ws' = [ws EXCEPT ![j] =
                                     [at |-> "dataset",
                                      request |-> pending_jobs[j],
                                      listening |-> TRUE]]
                        /\ answer' = Answer("connect", j, "connected")
                   ELSE /\ ws' = [ws EXCEPT ![j].at = "returned"]
                        /\ answer' = Answer("connect", j, "disconnected")
                        /\ UNCHANGED active_connections
    /\ UNCHANGED <<stop_events, is_set, loop, next_job, train_calls>>

\* listen_for_commands: a stop message, a disconnect or any other error of
\* receive_text sets the event and ends the listener
listen_for_commands(j) ==
    /\ ws[j].listening
    /\ ~is_set[j]
    /\ is_set' = [is_set EXCEPT ![j] = TRUE]
    /\ ws' = [ws EXCEPT ![j].listening = FALSE]
    /\ UNCHANGED <<pending_jobs, stop_events, active_connections, loop,
                   next_job, train_calls, answer>>

\* the custom dataset block: on a failed lookup the handler sends an error
\* and returns; otherwise train_model starts _train_sync in a thread
LoadDataset(j) ==
    /\ ws[j].at = "dataset"
    /\ \E found \in BOOLEAN :
           IF ws[j].request.custom /\ ~found
           THEN /\ ws' = [ws EXCEPT ![j].at = "returned"]
                /\ UNCHANGED <<loop, train_calls>>
           ELSE /\ ws' = [ws EXCEPT ![j].at = "training"]
                /\ loop' = [loop EXCEPT ![j] = [NotStarted EXCEPT !.at = "build"]]
                /\ train_calls' = [train_calls EXCEPT ![j] = @ + 1]
    /\ UNCHANGED <<pending_jobs, stop_events, is_set, active_connections,
                   next_job, answer>>

\* the loop ends with a message, or by raising
Terminal(j, message) ==
    [loop[j] EXCEPT !.at = "done", !.terminal = message,
                    !.stop_was_set = is_set[j]]

\* a mini-batch begins
Begin(j, l) ==
    [l EXCEPT !.after_stop = IF is_set[j] THEN @ + 1 ELSE @]

\* _train_sync before the loop: build_model, get_dataloaders, 'started';
\* with epochs = 0 the loop body never runs and 'completed' reads
\* train_loss before any assignment
TrainBuild(j) ==
    /\ loop[j].at = "build"
    /\ \E built \in BOOLEAN :
           loop' = [loop EXCEPT ![j] =
                       IF ~built \/ ws[j].request.epochs = 0
                       THEN Terminal(j, "error")
                       ELSE [loop[j] EXCEPT !.at = "epoch_poll", !.epoch = 1]]
    /\ UNCHANGED <<pending_jobs, stop_events, is_set, active_connections, ws,
                   next_job, train_calls, answer>>

\* should_stop()
should_stop(j) == is_set[j]

\* top of the epoch loop: the poll of line 75, then the poll of the first
\* mini-batch; an empty train_loader divides by zero after the inner loop
EpochPoll(j) ==
    /\ loop[j].at = "epoch_poll"
    /\ loop' = [loop EXCEPT ![j] =
                   IF should_stop(j) THEN Terminal(j, "stopped")
                   ELSE IF ws[j].request.batches = 0 THEN Terminal(j, "error")
                   ELSE [loop[j] EXCEPT !.at = "batch_poll", !.batch = 1]]
    /\ UNCHANGED <<pending_jobs, stop_events, is_set, active_connections, ws,
                   next_job, train_calls, answer>>

\* top of the mini-batch loop: the poll of line 86, then the batch begins
BatchPoll(j) ==
    /\ loop[j].at = "batch_poll"
    /\ loop' = [loop EXCEPT ![j] =
                   IF should_stop(j) THEN Terminal(j, "stopped")
                   ELSE Begin(j, [loop[j] EXCEPT !.at = "batch_work"])]
    /\ UNCHANGED <<pending_jobs, stop_events, is_set, active_connections, ws,
                   next_job, train_calls, answer>>

\* the training mini-batch ends; behind the last one the validation phase
\* begins with its first mini-batch, or divides by zero when there is none
BatchWork(j) ==
    /\ loop[j].at = "batch_work"
    /\ loop' = [loop EXCEPT ![j] =
                   IF loop[j].batch < ws[j].request.batches
                   THEN [loop[j] EXCEPT !.at = "batch_poll", !.batch = @ + 1]
                   ELSE IF ws[j].request.val_batches = 0
                        THEN Terminal(j, "error")
                        ELSE Begin(j, [loop[j] EXCEPT !.at = "val_work",
                                                      !.val = 1])]
    /\ UNCHANGED <<pending_jobs, stop_events, is_set, active_connections, ws,
                   next_job, train_calls, answer>>

\* the validation mini-batch ends; the next one begins, or the epoch ends
\* with 'epoch' and, behind the last epoch, 'completed'
ValWork(j) ==
    /\ loop[j].at = "val_work"
    /\ loop' = [loop EXCEPT ![j] =
                   IF loop[j].val < ws[j].request.val_batches
                   THEN Begin(j, [loop[j] EXCEPT !.val = @ + 1])
                   ELSE IF loop[j].epoch < ws[j].request.epochs
                        THEN [loop[j] EXCEPT !.at = "epoch_poll",
                                             !.epoch = @ + 1]
                        ELSE Terminal(j, "completed")]
    /\ UNCHANGED <<pending_jobs, stop_events, is_set, active_connections, ws,
                   next_job, train_calls, answer>>

\* train_model relayed the last message (or the error of the thread) and
\* returned: the finally block of training_websocket
TrainingFinished(j) ==
    /\ ws[j].at = "training"
    /\ loop[j].at = "done"
    /\ stop_events' = stop_events \ {j}
    /\ active_connections' = active_connections \ {j}
    /\ ws' = [ws EXCEPT ![j].at = "returned", ![j].listening = FALSE]
    /\ UNCHANGED <<pending_jobs, is_set, loop, next_job, train_calls, answer>>

NextTrain ==
    \/ start_training /\ UNCHANGED <<compileVars, normVars, relayVars>>
    \/ \E j \in Jobs :
           /\ \/ stop_training(j)
              \/ training_websocket(j)
              \/ listen_for_commands(j)
              \/ LoadDataset(j)
              \/ TrainBuild(j)
              \/ EpochPoll(j)
              \/ BatchPoll(j)
              \/ BatchWork(j)
              \/ ValWork(j)
              \/ TrainingFinished(j)
           /\ UNCHANGED <<compileVars, normVars, relayVars>>

SpecTrain == InitTrain /\ [][NextTrain]_vars

-----------------------------------------------------------------------------
(* Properties of the training loop and the job registry *)

\* C18: a loop whose stop flag was set before its last message never ends
\* with 'completed': it ends with 'stopped'
C18_StopWins ==
    \A j \in Jobs :
        (loop[j].at = "done" /\ loop[j].stop_was_set) =>
            /\ loop[j].terminal # "completed"
            /\ loop[j].terminal # "error" => loop[j].terminal = "stopped"

\* C19: once the stop flag is set the loop begins at most one more
\* mini-batch, of training or of validation, never a second one
C19_AtMostOneUnit == \A j \in Jobs : loop[j].after_stop <= 1

\* C20: start_training puts the job id into pending_jobs and stop_events,
\* and once the WebSocket handler that took the job has returned, the job id
\* is in none of pending_jobs, stop_events and active_connections
C20_RegistryCleared ==
    \A j \in Jobs :
        /\ (j < next_job /\ ws[j].at = "none") =>
               (j \in DOMAIN pending_jobs /\ j \in stop_events)
        /\ ws[j].at = "returned" =>
               /\ j \notin DOMAIN pending_jobs
               /\ j \notin stop_events
               /\ j \notin active_connections

\* the WebSocket handler that took job j has returned, or the job id was
\* never given out by start_training
Over(j) == ws[j].at = "returned" \/ j >= next_job

\* C26: train_model is called at most once for a job id: the first
\* WebSocket connection pops the request from pending_jobs, a later
\* connection is answered 'Job not found' and starts nothing; stop_training
\* for a job id that was never started or whose handler has returned
\* answers 404 and changes no registry
C26_StartsOnce ==
    [][\A j \in Jobs :
          /\ train_calls'[j] <= 1
          /\ (training_websocket(j) /\ j \in DOMAIN pending_jobs) =>
                 j \notin DOMAIN pending_jobs'
          /\ (training_websocket(j) /\ j \notin DOMAIN pending_jobs) =>
                 /\ answer'.status = "Job not found"
                 /\ UNCHANGED <<train_calls, loop, ws, pending_jobs,
                                stop_events, active_connections>>
          /\ (stop_training(j) /\ Over(j)) =>
                 /\ answer'.status = "404"
                 /\ UNCHANGED <<pending_jobs, stop_events, is_set,
                                active_connections>>
      ]_vars

-----------------------------------------------------------------------------
(* Properties of the sorter on graphs nobody validated, and of the shape  *)
(* map                                                                    *)

\* the ids on a directed cycle, self-loops included
CycleIds(g) == {id \in IdsOf(g.nodes) : <<id, id>> \in Closure(EdgePairs(g))}

\* the ids on a cycle or reachable from one
BehindCycle(g) ==
    CycleIds(g) \cup
        {id \in IdsOf(g.nodes) :
            \E c \in CycleIds(g) : <<c, id>> \in Closure(EdgePairs(g))}

\* DynamicModel.__init__ ran topological_sort on a graph that has a cycle
\* and whose edges all name nodes
SortedCyclic ==
    /\ pc \in {"built", "build_failed"}
    /\ FirstBadEdge(graph) = 0
    /\ CycleIds(graph) # {}

\* C23: on a graph with a cycle whose edges all name existing nodes,
\* topological_sort returns without raising a sequence without duplicates
\* that holds exactly the nodes neither on a cycle nor reachable from one,
\* the source of every edge between two returned nodes before its target
C23_PartialOrderOnCycle ==
    SortedCyclic =>
        /\ topological_sort(graph).raised = ""
        /\ topo_order = topological_sort(graph).order
        /\ \A id \in Range(topo_order) :
               Cardinality(Positions(topo_order, id)) = 1
        /\ Range(topo_order) = IdsOf(graph.nodes) \ BehindCycle(graph)
        /\ \A e \in 1..Len(graph.edges) :
               ({graph.edges[e].source, graph.edges[e].target}
                    \subseteq Range(topo_order)) =>
                   \E i \in Positions(topo_order, graph.edges[e].source),
                      j \in Positions(topo_order, graph.edges[e].target) : i < j

\* a graph with a self-loop off the path from one returned node to another
C23_Witness ==
    /\ SortedCyclic
    /\ Len(topo_order) = 2
    /\ \E e \in 1..Len(graph.edges) :
           /\ graph.edges[e].source = topo_order[1]
           /\ graph.edges[e].target = topo_order[2]
    /\ BehindCycle(graph) # {}

\* C27: in every graph validate_graph accepted the input node has no incoming
\* edge and no other node has in-degree zero, and the order topological_sort
\* returned begins with the input node
C27_InputIsTheOnlySource ==
    Accepted =>
        /\ InDeg(InputId) = 0
        /\ \A i \in 1..Len(graph.nodes) :
               InDeg(graph.nodes[i].id) = 0 => graph.nodes[i].type = "input"
        /\ pc \in {"built", "build_failed"} =>
               (Len(topo_order) > 0 /\ topo_order[1] = InputId)

\* an accepted graph of three nodes, sorted, whose input node is not the
\* first node of the list
C27_Witness ==
    /\ Accepted
    /\ pc \in {"built", "build_failed"}
    /\ Len(topo_order) = 3
    /\ graph.nodes[1].type # "input"

\* infer_shapes returned normally on a graph validate_graph accepted
ShapedAccepted ==
    /\ Accepted
    /\ pc \in {"shaped", "built", "build_failed"}
    /\ shapes.raised = ""

\* C28: when infer_shapes returns normally on an accepted graph, the shape
\* map has an entry for every node id of the graph, the output node's
\* included, and each id is visited, and so written, exactly once
C28_ShapeMapIsTotal ==
    ShapedAccepted =>
        /\ DOMAIN shapes.shapes = IdsOf(graph.nodes)
        /\ \A id \in IdsOf(graph.nodes) :
               Cardinality(Positions(topological_sort(graph).order, id)) = 1

\* forward reached the concat node n2 with every upstream tensor computed
\* and shaped, behind its batch axis, as infer_shapes wrote it
ConcatReached ==
    /\ pc = "built"
    /\ HasNode("n2")
    /\ NodeType("n2") = "concat"
    /\ fwd.status \in {"running", "raised", "returned"}
    /\ LET srcs == get_input_nodes(graph, "n2")
       IN /\ Len(srcs) > 0
          /\ \A j \in 1..Len(srcs) :
                 /\ srcs[j] \in DOMAIN sizes
                 /\ srcs[j] \in DOMAIN shapes.shapes
                 /\ Back(sizes[srcs[j]], 1) = shapes.shapes[srcs[j]]
    /\ "n2" \in DOMAIN sizes \/ (fwd.status = "raised" /\ topo_order[pos] = "n2")

\* C29: for a concat node, with any configured dim and with none, forward
\* ends the node without raising and its tensor, behind the batch axis, has
\* the shape infer_shapes wrote for the node
C29_ConcatAxisAgrees ==
    ConcatReached =>
        /\ "n2" \in DOMAIN sizes
        /\ Back(sizes["n2"], 1) = shapes.shapes["n2"]

-----------------------------------------------------------------------------
(* backend/compiler/normalize_graph.py: the JSON values a graph carries    *)
(* and the two normalizers                                                 *)

\* a JSON value as Python holds it: its kind and its content. A float is
\* kept as twice its value, so that 1.5 is Float(3)
PyNone == [k |-> "none", v |-> 0]
PyBool(b) == [k |-> "bool", v |-> b]
PyInt(n) == [k |-> "int", v |-> n]
PyFloat(halves) == [k |-> "float", v |-> halves]
PyList(seq) == [k |-> "list", v |-> seq]
PyDict(fields) == [k |-> "dict", v |-> fields]
NoFields == [key \in {} |-> PyNone]

\* a string is kept as its stripped, lower-case text together with whether
\* the string has upper-case letters and whether blanks surround it
PyStrOf(text, cased, padded) ==
    [k |-> "str", v |-> [text |-> text, cased |-> cased, padded |-> padded]]
PyStr(text) == PyStrOf(text, FALSE, FALSE)

\* s.strip().lower()
StripLower(s) == PyStr(s.v.text)
\* bool(x)
IsTrue(x) ==
    CASE x.k = "none" -> FALSE
      [] x.k = "bool" -> x.v
      [] x.k \in {"int", "float"} -> x.v # 0
      [] x.k = "str" -> x.v.text # "" \/ x.v.padded
      [] x.k = "list" -> Len(x.v) > 0
      [] x.k = "dict" -> DOMAIN x.v # {}

\* isinstance(x, (int, float)): a bool is an int
IsNumber(x) == x.k \in {"bool", "int", "float"}

\* int(x) of a number truncates towards zero
IntOfNumber(x) ==
    CASE x.k = "bool" -> IF x.v THEN 1 ELSE 0
      [] x.k = "int" -> x.v
      [] x.k = "float" -> IF x.v >= 0 THEN x.v \div 2 ELSE -((-x.v) \div 2)

\* the texts int() reads as an integer, blanks around them allowed
IntTexts == {"0", "1", "2", "3", "5"}
IntOfText(text) ==
    CASE text = "0" -> 0 [] text = "1" -> 1 [] text = "2" -> 2
      [] text = "3" -> 3 [] text = "5" -> 5

\* x.strip().replace("-", "").replace(".", "").isdigit()
LooseDigits == IntTexts \cup {"1.5", "1-2"}

\* raw.split(","), each piece stripped
Pieces(text) ==
    CASE text = "2,3" -> <<"2", "3">>
      [] text = "3,1.5" -> <<"3", "1.5">>
      [] text = "2,x" -> <<"2", "x">>
      [] OTHER -> <<text>>

\* d.get(key)
PyGet(d, key) == IF key \in DOMAIN d THEN d[key] ELSE PyNone

\* x or y
Or(x, y) == IF IsTrue(x) THEN x ELSE y

\* f"e-{src}-{tgt}"
EdgeName(src, tgt) ==
    [k |-> "str", v |-> [text |-> "e-", cased |-> FALSE, padded |-> FALSE,
                         source |-> src, target |-> tgt]]

\* float(x) of a number
FloatOf(x) ==
    CASE x.k = "bool" -> PyFloat(IF x.v THEN 2 ELSE 0)
      [] x.k = "int" -> PyFloat(2 * x.v)
      [] x.k = "float" -> x

\* str(x) of an id
StrOf(x) ==
    CASE x.k = "str" -> x
      [] x.k = "int" -> PyStr(ToString(x.v))
      [] x.k = "none" -> PyStrOf("none", TRUE, FALSE)
      [] x.k = "bool" -> PyStrOf(IF x.v THEN "true" ELSE "false", TRUE, FALSE)
      [] OTHER -> PyStr("<repr>")

RECURSIVE _int_param(_, _)
_int_param(value, default) ==
    IF value.k = "none" THEN default
    ELSE IF value.k \in {"int", "float"} THEN IntOfNumber(value)
    ELSE IF value.k = "list" /\ Len(value.v) > 0
         THEN _int_param(value.v[1], default)
    ELSE IF value.k = "str"
         THEN IF value.v.text \in IntTexts THEN IntOfText(value.v.text)
              ELSE default
    ELSE default

\* what a node normalizer gives: an exception, or (out_type, p)
NodeRaised(kind) == [raised |-> kind, type |-> PyStr(""), params |-> NoFields]
NodeDone(out_type, p) == [raised |-> "", type |-> out_type, params |-> p]

\* [int(x) for x in shape if isinstance(x, (int, float))]
RECURSIVE IntsOf(_)
IntsOf(seq) ==
    IF Len(seq) = 0 THEN <<>>
    ELSE IF IsNumber(seq[1])
         THEN <<PyInt(IntOfNumber(seq[1]))>> \o IntsOf(Tail(seq))
         ELSE IntsOf(Tail(seq))

\* [1 if x is None else int(x) for x in raw
\*  if isinstance(x, (int, float)) or x is None]
RECURSIVE NumsOf(_)
NumsOf(seq) ==
    IF Len(seq) = 0 THEN <<>>
    ELSE IF seq[1].k = "none" THEN <<PyInt(1)>> \o NumsOf(Tail(seq))
    ELSE IF IsNumber(seq[1])
         THEN <<PyInt(IntOfNumber(seq[1]))>> \o NumsOf(Tail(seq))
         ELSE NumsOf(Tail(seq))

\* raw[0] is None or raw[0] == 1
IsBatchPlaceholder(x) ==
    \/ x.k = "none"
    \/ x.k = "bool" /\ x.v
    \/ x.k = "int" /\ x.v = 1
    \/ x.k = "float" /\ x.v = 2

\* the list branch of input_shape
StripBatch(raw) ==
    IF Len(NumsOf(raw)) = 4 /\ IsBatchPlaceholder(raw[1])
    THEN Tail(NumsOf(raw)) ELSE NumsOf(raw)

\* the string branch of input_shape: the pieces that pass the digit test,
\* and whether int() takes each of them
KeptPieces(text) ==
    SelectSeq(Pieces(text), LAMBDA x : x \in LooseDigits)

\* the input branch; `shape` is params.shape or what input_shape yields
ShapeOfInput(p) ==
    LET shape == PyGet(p, "shape")
        raw == PyGet(p, "input_shape")
    IN IF shape.k = "list" THEN [raised |-> "", shape |-> shape]
       ELSE IF raw.k = "list"
            THEN [raised |-> "", shape |-> PyList(StripBatch(raw.v))]
       ELSE IF raw.k = "str"
            THEN IF \E i \in 1..Len(KeptPieces(raw.v.text)) :
                        KeptPieces(raw.v.text)[i] \notin IntTexts
                 THEN [raised |-> "ValueError", shape |-> PyNone]
                 ELSE [raised |-> "",
                       shape |-> PyList([i \in 1..Len(KeptPieces(raw.v.text)) |->
                                  PyInt(IntOfText(KeptPieces(raw.v.text)[i]))])]
       ELSE [raised |-> "", shape |-> PyList(<<PyInt(1), PyInt(28), PyInt(28)>>)]

DefaultInputShape == PyList(<<PyInt(1), PyInt(28), PyInt(28)>>)

NormalizeInput(p) ==
    LET s == ShapeOfInput(p)
        p1 == IF IsTrue(s.shape) /\ s.shape.k = "list"
              THEN Put(p, "shape", PyList(IntsOf(s.shape.v)))
              ELSE p
        p2 == IF "shape" \notin DOMAIN p1 \/ ~IsTrue(p1["shape"])
              THEN Put(p1, "shape", DefaultInputShape)
              ELSE p1
    IN IF s.raised # "" THEN NodeRaised(s.raised)
       ELSE NodeDone(PyStr("input"), p2)

\* the conv2d branch; k // 2 when padding is "same"
NormalizeConv2d(p) ==
    LET k == _int_param(PyGet(p, "kernel_size"), 3)
        s == _int_param(PyGet(p, "stride"), 1)
        pad == PyGet(p, "padding")
        padding == IF pad.k = "str" /\ pad.v.text = "same"
                   THEN IF k > 0 THEN FloorDiv(k, 2) ELSE 0
                   ELSE _int_param(pad, 0)
    IN NodeDone(PyStr("conv2d"),
                Put(Put(Put(p, "kernel_size", PyInt(k)), "stride", PyInt(s)),
                    "padding", PyInt(padding)))

\* the maxpool2d and maxpool1d branches
NormalizePool(out_type, p) ==
    LET k == _int_param(PyGet(p, "kernel_size"), 2)
        s == _int_param(PyGet(p, "stride"), k)
    IN NodeDone(out_type, Put(Put(p, "kernel_size", PyInt(k)), "stride", PyInt(s)))

Activations == {"relu", "gelu", "sigmoid", "tanh"}

\* the activation branch
NormalizeActivation(p) ==
    LET act0 == Or(Or(PyGet(p, "activation"), PyGet(p, "function")), PyStr("relu"))
        act == IF act0.k = "str" THEN StripLower(act0) ELSE act0
    IN IF act.k = "str" /\ act.v.text \in Activations
       THEN NodeDone(act, NoFields)
       ELSE NodeDone(PyStr("relu"), NoFields)

\* the branches both node normalizers share, from type_map.get(t, t) on; the
\* type map sends each of its keys to itself
NormalizeByType(t, p) ==
    CASE t.v.text = "activation" -> NormalizeActivation(p)
      [] t.v.text = "input" -> NormalizeInput(p)
      [] t.v.text = "conv2d" -> NormalizeConv2d(p)
      [] t.v.text \in {"maxpool2d", "maxpool1d"} -> NormalizePool(t, p)
      [] OTHER -> NodeDone(t, p)

\* _normalize_node_type_and_params(node): node.type is a str and node.params
\* a dict
_normalize_node_type_and_params(node) ==
    LET t == StripLower(Or(node["type"], PyStr("")))
        p == IF IsTrue(node["params"]) THEN node["params"].v ELSE NoFields
    IN NormalizeByType(t, p)

\* _normalize_node_dict(n): n is a dict with whatever values
_normalize_node_dict(n) ==
    LET type == Or(PyGet(n, "type"), PyStr(""))
        params == Or(PyGet(n, "params"), PyDict(NoFields))
    IN IF type.k # "str" THEN NodeRaised("AttributeError")
       ELSE IF params.k # "dict"
            THEN NodeRaised(IF params.k = "str" THEN "ValueError" ELSE "TypeError")
       ELSE LET t == StripLower(type)
            IN NormalizeByType(IF t.v.text = "maxpool" THEN PyStr("maxpool2d") ELSE t,
                               params.v)

\* what a graph normalizer gives: an exception, or a graph
GraphRaised(kind) ==
    [raised |-> kind, nodes |-> <<>>, edges |-> <<>>, version |-> PyNone,
     metadata |-> PyNone]
GraphDone(nodes, edges, version, metadata) ==
    [raised |-> "", nodes |-> nodes, edges |-> edges, version |-> version,
     metadata |-> metadata]
NotCalled ==
    [raised |-> "not called", nodes |-> <<>>, edges |-> <<>>,
     version |-> PyNone, metadata |-> PyNone]

\* {"x": float(pos.get("x", 0)), "y": float(pos.get("y", 0))}, the position
\* {"x": 0, "y": 0} standing in for one that is no dict
PositionOf(n) ==
    LET position == IF PyGet(n, "position").k = "dict" THEN PyGet(n, "position").v
                    ELSE [x |-> PyInt(0), y |-> PyInt(0)]
    IN PyDict([x |-> FloatOf(Get(position, "x", PyInt(0))),
               y |-> FloatOf(Get(position, "y", PyInt(0)))])

\* the node loop of normalize_graph_dict
RECURSIVE DictNodes(_, _)
DictNodes(nodes, out_nodes) ==
    IF Len(nodes) = 0 THEN GraphDone(out_nodes, <<>>, PyNone, PyNone)
    ELSE LET n == nodes[1]
         IN IF n.k # "dict" \/ "id" \notin DOMAIN n.v
            THEN DictNodes(Tail(nodes), out_nodes)
            ELSE LET r == _normalize_node_dict(n.v)
                 IN IF r.raised # "" THEN GraphRaised(r.raised)
                    ELSE IF ~IsTrue(r.type) THEN DictNodes(Tail(nodes), out_nodes)
                    ELSE DictNodes(Tail(nodes),
                             Append(out_nodes,
                                 PyDict([id |-> StrOf(n.v["id"]), type |-> r.type,
                                         params |-> PyDict(r.params),
                                         position |-> PositionOf(n.v)])))

\* every edge is kept
EdgeKeptAlways(src, tgt, node_ids) == TRUE

\* if src in node_ids and tgt in node_ids
EdgeKept(src, tgt, node_ids) == src \in node_ids /\ tgt \in node_ids

\* the edge loop of normalize_graph_dict
RECURSIVE DictEdges(_, _, _)
DictEdges(edges, node_ids, out_edges) ==
    IF Len(edges) = 0 THEN out_edges
    ELSE LET e == edges[1]
         IN IF e.k # "dict" \/ "source" \notin DOMAIN e.v \/ "target" \notin DOMAIN e.v
            THEN DictEdges(Tail(edges), node_ids, out_edges)
            ELSE LET src == StrOf(e.v["source"])
                     tgt == StrOf(e.v["target"])
                 IN IF EdgeKept(src, tgt, node_ids)
                    THEN DictEdges(Tail(edges), node_ids,
                             Append(out_edges,
                                 PyDict([id |-> StrOf(Or(PyGet(e.v, "id"),
                                                         EdgeName(src, tgt))),
                                         source |-> src,
                                         sourceHandle |-> Get(e.v, "sourceHandle", PyStr("out")),
                                         target |-> tgt,
                                         targetHandle |-> Get(e.v, "targetHandle", PyStr("in"))])))
                    ELSE DictEdges(Tail(edges), node_ids, out_edges)

\* the metadata of normalize_graph_dict
MetadataOf(metadata) ==
    IF metadata.k = "dict"
    THEN PyDict([name |-> Or(PyGet(metadata.v, "name"), PyStrOf("untitled", TRUE, FALSE)),
                 created_at |-> Or(PyGet(metadata.v, "created_at"), PyStr("")),
                 description |-> PyGet(metadata.v, "description")])
    ELSE PyDict([name |-> PyStrOf("untitled", TRUE, FALSE),
                 created_at |-> PyStr(""), description |-> PyNone])

\* normalize_graph_dict(graph_dict)
normalize_graph_dict(graph_dict) ==
    LET ns == DictNodes(graph_dict.nodes, <<>>)
        node_ids == {ns.nodes[i].v["id"] : i \in 1..Len(ns.nodes)}
    IN IF ns.raised # "" THEN ns
       ELSE GraphDone(ns.nodes, DictEdges(graph_dict.edges, node_ids, <<>>),
                      Or(graph_dict.version, PyStr("1.0")),
                      MetadataOf(Or(graph_dict.metadata, PyDict(NoFields))))

\* the node loop of normalize_graph
RECURSIVE SchemaNodes(_, _)
SchemaNodes(nodes, out_nodes) ==
    IF Len(nodes) = 0 THEN GraphDone(out_nodes, <<>>, PyNone, PyNone)
    ELSE LET r == _normalize_node_type_and_params(nodes[1].v)
         IN IF r.raised # "" THEN GraphRaised(r.raised)
            ELSE SchemaNodes(Tail(nodes),
                     Append(out_nodes,
                         PyDict([id |-> nodes[1].v["id"], type |-> r.type,
                                 params |-> PyDict(r.params),
                                 position |-> nodes[1].v["position"]])))

\* normalize_graph(graph): version, edges and metadata are passed on
normalize_graph(g) ==
    LET ns == SchemaNodes(g.nodes, <<>>)
    IN IF ns.raised # "" THEN ns
       ELSE GraphDone(ns.nodes, g.edges, g.version, g.metadata)

-----------------------------------------------------------------------------
(* The graphs handed to the normalizers *)

\* a key that is not in the dict
Absent == [k |-> "absent", v |-> 0]
Opt(key, value) == IF value = Absent THEN NoFields ELSE (key :> value)

Ints(seq) == PyList([i \in 1..Len(seq) |-> PyInt(seq[i])])

ShapeValues ==
    {Absent, PyNone, PyList(<<>>), Ints(<<2, 3>>), PyList(<<PyFloat(3)>>),
     PyList(<<PyStr("x")>>), PyStr("x"), PyList(<<PyBool(TRUE), PyInt(2)>>)}

InputShapeValues ==
    {Absent, PyNone, PyInt(5), PyList(<<>>), PyList(<<PyStr("x")>>),
     PyList(<<PyNone, PyInt(3), PyInt(2), PyInt(2)>>),
     PyList(<<PyNone, PyInt(5)>>),
     Ints(<<1, 2, 2>>), Ints(<<1, 3, 2, 2>>), Ints(<<2, 3>>),
     PyList(<<PyStr("x"), PyInt(1), PyInt(3), PyInt(2), PyInt(2)>>),
     PyStr("2,3"), PyStr("1.5"), PyStr("2,x"), PyStr("x"), PyStr("")}

KernelValues ==
    {Absent, PyNone, PyInt(3), Ints(<<5, 5>>), PyList(<<>>),
     PyList(<<Ints(<<2>>)>>), PyStr("3"), PyStr("x"), PyBool(TRUE), PyFloat(5)}

StrideValues == {Absent, PyInt(2), PyStr("2")}

PaddingValues ==
    {Absent, PyInt(1), PyStr("same"), PyStrOf("same", TRUE, TRUE), PyStr("x")}

ActivationValues ==
    {Absent, PyNone, PyStr(""), PyStr("relu"), PyStrOf("gelu", TRUE, TRUE),
     PyStr("swish"), PyInt(5), PyList(<<PyStr("tanh")>>)}

\* the spellings of a type: as the backend writes it, capitalised, and
\* capitalised between blanks
Spellings(text) ==
    {PyStr(text), PyStrOf(text, TRUE, FALSE), PyStrOf(text, TRUE, TRUE)}

NodeOf(type, params) ==
    Opt("id", PyStr("a")) @@ Opt("type", type) @@ Opt("params", params)

InputNodes ==
    {NodeOf(t, PyDict(Opt("shape", s) @@ Opt("input_shape", r))) :
        t \in Spellings("input"), s \in ShapeValues, r \in InputShapeValues}

Conv2dNodes ==
    {NodeOf(PyStr("conv2d"),
            PyDict(Opt("kernel_size", k) @@ Opt("stride", s) @@ Opt("padding", pad))) :
        k \in KernelValues, s \in StrideValues, pad \in PaddingValues}

PoolNodes ==
    {NodeOf(t, PyDict(Opt("kernel_size", k) @@ Opt("stride", s))) :
        t \in Spellings("maxpool2d") \cup {PyStr("maxpool"), PyStr("maxpool1d")},
        k \in {Absent, PyInt(3), Ints(<<2, 2>>), PyStr("x")},
        s \in {Absent, PyInt(1), PyList(<<>>)}}

ActivationNodes ==
    {NodeOf(t, PyDict(Opt("activation", a) @@ Opt("function", f))) :
        t \in Spellings("activation"), a \in ActivationValues,
        f \in {Absent, PyStr("tanh")}}

\* node types and params that are no string and no dict
OddNodes ==
    {NodeOf(t, p) :
        t \in Spellings("linear") \cup
              {Absent, PyNone, PyStr(""), PyStrOf("", FALSE, TRUE), PyInt(0),
               PyInt(5), PyBool(TRUE), PyList(<<>>), PyList(<<PyStr("x")>>)},
        p \in {Absent, PyNone, PyDict(NoFields), PyDict("out_features" :> PyInt(2)),
               PyInt(5), PyStr("ab"), PyList(<<>>)}}

FirstNodes == InputNodes \cup Conv2dNodes \cup PoolNodes \cup ActivationNodes \cup OddNodes

\* the nodes behind the first: an output node, a node under the id of the
\* first, a node under a number, a node without id, a value that is no dict
OtherNodes ==
    {PyDict([id |-> PyStr("b"), type |-> PyStr("output"), params |-> PyDict(NoFields)]),
     PyDict([id |-> PyStr("a"), type |-> PyStr("output"), params |-> PyDict(NoFields),
             position |-> PyDict([x |-> PyInt(1)])]),
     PyDict([id |-> PyInt(5), type |-> PyStrOf("output", TRUE, FALSE)]),
     PyDict([type |-> PyStr("output")]),
     PyInt(5)}

EdgeOf(source, target) ==
    PyDict([id |-> PyStr("e1"), source |-> source, sourceHandle |-> PyStr("out"),
            target |-> target, targetHandle |-> PyStr("in")])

EdgeLists ==
    {<<>>,
     <<EdgeOf(PyStr("a"), PyStr("b"))>>,
     <<EdgeOf(PyStr("a"), PyStr("zz"))>>,
     <<PyDict([source |-> PyStr("a"), target |-> PyInt(5)])>>,
     <<PyDict([source |-> PyStr("a")]), PyInt(5)>>}

RECURSIVE NodeLists(_)
NodeLists(n) ==
    IF n = 0 THEN {<<>>}
    ELSE NodeLists(n - 1) \cup
         {Append(ns, o) : ns \in {l \in NodeLists(n - 1) : Len(l) = n - 1},
                          o \in OtherNodes}

Metadata == PyDict([name |-> PyStr("net"), created_at |-> PyStr(""),
                    description |-> PyNone])

GraphDicts ==
    {[nodes |-> <<PyDict(n)>> \o ns, edges |-> es, version |-> v, metadata |-> m] :
        n \in FirstNodes, ns \in NodeLists(MaxOtherNodes), es \in EdgeLists,
        v \in {PyNone, PyStr("1.0")}, m \in {PyNone, Metadata}}

\* what pydantic lets through as a GraphSchema: ids, types and edge ends are
\* strings, params and positions are dicts
IsGraphNode(n) ==
    /\ n.k = "dict"
    /\ {"id", "type", "params", "position"} \subseteq DOMAIN n.v
    /\ n.v["id"].k = "str" /\ n.v["type"].k = "str"
    /\ n.v["params"].k = "dict" /\ n.v["position"].k = "dict"

IsGraphEdge(e) ==
    /\ e.k = "dict"
    /\ DOMAIN e.v = {"id", "source", "sourceHandle", "target", "targetHandle"}
    /\ \A key \in DOMAIN e.v : e.v[key].k = "str"

IsGraphSchema(g) ==
    /\ \A i \in 1..Len(g.nodes) : IsGraphNode(g.nodes[i])
    /\ \A i \in 1..Len(g.edges) : IsGraphEdge(g.edges[i])
    /\ g.version.k = "str" /\ g.metadata.k = "dict"

\* the first node with a position, as the canvas sends it
Placed(g) ==
    [g EXCEPT !.nodes[1] = PyDict(g.nodes[1].v @@
                                  ("position" :> PyDict([x |-> PyInt(1), y |-> PyFloat(3)])))]

\* the normalizer a request reaches
Apply1(fn, g) ==
    IF fn = "normalize_graph" THEN normalize_graph(g) ELSE normalize_graph_dict(g)

NoNorm == [fn |-> "", input |-> NotCalled, out |-> NotCalled, again |-> NotCalled]

InitNorm ==
    /\ Start(GraphSchema(<<>>, <<>>), "normalizing")
    /\ NoJobs
    /\ NotRelaying
    /\ \E g \in GraphDicts :
           \/ norm = [NoNorm EXCEPT !.fn = "normalize_graph_dict", !.input = g]
           \/ /\ IsGraphSchema(Placed(g))
              /\ norm = [NoNorm EXCEPT !.fn = "normalize_graph", !.input = Placed(g)]

\* start_training: normalize_graph(request.graph); feedback:
\* normalize_graph_dict(suggested)
Normalize ==
    /\ norm.fn # ""
    /\ norm.out = NotCalled
    /\ norm' = [norm EXCEPT !.out = Apply1(norm.fn, norm.input)]

\* get_feedback: normalize_graph_dict(suggested_graph) on the graph
\* _generate_feedback_unified normalized already
NormalizeAgain ==
    /\ norm.out.raised = ""
    /\ norm.again = NotCalled
    /\ norm' = [norm EXCEPT !.again = Apply1(norm.fn, norm.out)]

NextNorm ==
    \/ Normalize /\ UNCHANGED <<compileVars, trainVars, relayVars>>
    \/ NormalizeAgain /\ UNCHANGED <<compileVars, trainVars, relayVars>>

SpecNorm == InitNorm /\ [][NextNorm]_vars

-----------------------------------------------------------------------------
(* Properties of the normalizers *)

\* the normalizer was called
Normalized == norm.fn # "" /\ norm.out # NotCalled

\* C21: normalize_graph and normalize_graph_dict never raise, whatever the
\* values of the node types and params of the graph
C21_NormalizeIsTotal == Normalized => norm.out.raised = ""

\* the first node of the request is an input node and the normalizer returned
InputNormalized ==
    /\ Normalized
    /\ norm.out.raised = ""
    /\ PyGet(norm.input.nodes[1].v, "type").k = "str"
    /\ PyGet(norm.input.nodes[1].v, "type").v.text = "input"

RawParams == PyGet(norm.input.nodes[1].v, "params").v
OutShape == norm.out.nodes[1].v["params"].v["shape"]

NonEmptyIntList(x) ==
    /\ x.k = "list"
    /\ Len(x.v) > 0
    /\ \A i \in 1..Len(x.v) : x.v[i].k = "int"

\* the numbers of a list behind its leading batch placeholder, null or 1
BehindBatch(seq) ==
    IF Len(seq) > 0 /\ (seq[1].k = "none" \/ seq[1] = PyInt(1))
    THEN IntsOf(Tail(seq)) ELSE IntsOf(seq)

\* C22: for an input node whose shape param is no list, params.shape is the
\* integers of the list input_shape behind its leading batch placeholder,
\* whatever its length; it is [1, 28, 28] when neither param is a list with a
\* number; and every normalized input node has a non-empty list of integers
\* in params.shape
C22_InputShapeCoercion ==
    InputNormalized =>
        LET shape == PyGet(RawParams, "shape")
            raw == PyGet(RawParams, "input_shape")
        IN /\ NonEmptyIntList(OutShape)
           /\ (shape.k # "list" /\ raw.k = "list" /\ BehindBatch(raw.v) # <<>>) =>
                  OutShape = PyList(BehindBatch(raw.v))
           /\ ( /\ shape.k = "list" => IntsOf(shape.v) = <<>>
                /\ raw.k = "list" => IntsOf(raw.v) = <<>>
                /\ raw.k # "str" ) =>
                  OutShape = DefaultInputShape

\* C30: a normalizer applied to its own result gives that result again, and
\* every edge of a result of normalize_graph_dict has both ends among the
\* ids of the result's nodes
C30_NormalizeIsIdempotent ==
    /\ norm.fn # "" /\ norm.again # NotCalled => norm.again = norm.out
    /\ (norm.fn = "normalize_graph_dict" /\ norm.out.raised = "") =>
           \A i \in 1..Len(norm.out.edges) :
               \A end \in {"source", "target"} :
                   \E j \in 1..Len(norm.out.nodes) :
                       norm.out.nodes[j].v["id"] = norm.out.edges[i].v[end]

\* normalize_graph_dict ran twice on a graph it rewrote: it dropped the only
\* edge, whose target is no node, and rewrote the first node's type
C30_Witness ==
    /\ norm.fn = "normalize_graph_dict"
    /\ norm.again # NotCalled
    /\ Len(norm.input.edges) = 1
    /\ Len(norm.out.edges) = 0
    /\ Len(norm.out.nodes) = 2
    /\ norm.out.nodes[1].v["type"] # PyGet(norm.input.nodes[1].v, "type")

-----------------------------------------------------------------------------
(* backend/training/trainer.py, train_model: the worker thread of         *)
(* _train_sync, the callbacks it schedules on the event loop, the message *)
(* queue and the relay loop that hands the messages to ws_callback        *)

\* what the request decides in _train_sync: config.epochs,
\* len(train_loader) and len(val_loader)
RelayRequests ==
    [epochs : 0..MaxEpochs, batches : 0..MaxTrainBatches,
     val_batches : 0..MaxValBatches]

\* a message of the training loop
Msg(type, epoch, batch) == [type |-> type, epoch |-> epoch, batch |-> batch]

IsTerminal(msg) == msg.type \in {"completed", "stopped", "error"}

call_soon_first(callbacks, callback) == <<callback>> \o callbacks

\* loop.call_soon_threadsafe: the callback goes behind the callbacks that
\* were scheduled before it
call_soon_threadsafe(callbacks, callback) == Append(callbacks, callback)

\* send_msg_threadsafe, for each message of a step of the thread in turn
RECURSIVE send_msg_threadsafe(_, _)
send_msg_threadsafe(callbacks, msgs) ==
    IF msgs = <<>> THEN callbacks
    ELSE send_msg_threadsafe(
             call_soon_threadsafe(callbacks,
                                  [call |-> "put_nowait", msg |-> Head(msgs)]),
             Tail(msgs))

\* the future of run_in_executor is set by a callback on the event loop
\* when _train_sync has returned or raised
Finish(callbacks, end) ==
    IF end = "" THEN callbacks
    ELSE call_soon_threadsafe(callbacks,
             [call |-> IF end = "returned" THEN "set_result"
                       ELSE "set_exception",
              msg |-> Msg("", 0, 0)])

\* a step of _train_sync: the messages it sends, where it goes on, and
\* whether the function returns or raises with it
Worker(at, epoch, batch, msgs, end) ==
    /\ thread' = [thread EXCEPT !.at = IF end = "" THEN at ELSE end,
                                !.epoch = epoch, !.batch = batch]
    /\ ready' = Finish(send_msg_threadsafe(ready, msgs), end)
    /\ emitted' = emitted \o msgs
    /\ UNCHANGED <<message_queue, train_future, relay, stop_event, delivered>>

\* train_model has started _train_sync in the executor and is at the top of
\* the relay loop; the stop event may be set already
InitRelay ==
    /\ Start(GraphSchema(<<>>, <<>>), "relaying")
    /\ NoJobs
    /\ NotNormalizing
    /\ \E request \in RelayRequests :
           thread = [at |-> "build", request |-> request, epoch |-> 0,
                     batch |-> 0]
    /\ ready = <<>>
    /\ message_queue = <<>>
    /\ train_future = "pending"
    /\ relay = [at |-> "top", done |-> FALSE, timed_out |-> FALSE]
    /\ stop_event \in BOOLEAN
    /\ emitted = <<>>
    /\ delivered = <<>>

\* _train_sync up to 'started': build_model or get_dataloaders may raise
WorkerBuild ==
    /\ thread.at = "build"
    /\ \E built \in BOOLEAN :
           IF built
           THEN Worker("epoch", 1, 0, <<Msg("started", 0, 0)>>, "")
           ELSE Worker("build", 0, 0, <<>>, "raised")

\* top of the epoch loop: behind the last epoch 'completed' is sent, which
\* reads train_loss and raises when no epoch has run; otherwise the stop
\* event is polled
WorkerEpoch ==
    /\ thread.at = "epoch"
    /\ IF thread.epoch > thread.request.epochs
       THEN IF thread.request.epochs = 0
            THEN Worker("epoch", thread.epoch, 0, <<>>, "raised")
            ELSE Worker("epoch", thread.epoch, 0,
                        <<Msg("completed", 0, 0)>>, "returned")
       ELSE IF stop_event
            THEN Worker("epoch", thread.epoch, 0,
                        <<Msg("stopped", 0, 0)>>, "returned")
            ELSE Worker("batch", thread.epoch, 0, <<>>, "")

\* top of the mini-batch loop: behind the last mini-batch the mean loss
\* divides by len(train_loader); otherwise the stop event is polled and the
\* mini-batch is computed, which may raise, with a 'batch' message for
\* every 50th batch_idx
WorkerBatch ==
    /\ thread.at = "batch"
    /\ IF thread.batch >= thread.request.batches
       THEN IF thread.request.batches = 0
            THEN Worker("batch", thread.epoch, thread.batch, <<>>, "raised")
            ELSE Worker("validate", thread.epoch, thread.batch, <<>>, "")
       ELSE IF stop_event
            THEN Worker("batch", thread.epoch, thread.batch,
                        <<Msg("stopped", 0, 0)>>, "returned")
            ELSE \E computed \in BOOLEAN :
                     IF computed
                     THEN Worker("batch", thread.epoch, thread.batch + 1,
                                 IF thread.batch % 50 = 0
                                 THEN <<Msg("batch", thread.epoch,
                                            thread.batch)>>
                                 ELSE <<>>,
                                 "")
                     ELSE Worker("batch", thread.epoch, thread.batch, <<>>,
                                 "raised")

\* the validation phase, which divides by len(val_loader), and 'epoch'
WorkerValidate ==
    /\ thread.at = "validate"
    /\ IF thread.request.val_batches = 0
       THEN Worker("validate", thread.epoch, thread.batch, <<>>, "raised")
       ELSE Worker("epoch", thread.epoch + 1, 0,
                   <<Msg("epoch", thread.epoch, 0)>>, "")

\* stop_event.set() by stop_training, by the listener of the socket or by
\* a ws_callback whose send failed
SetStopEvent ==
    /\ ~stop_event
    /\ relay.at # "returned"
    /\ stop_event' = TRUE
    /\ UNCHANGED <<thread, ready, message_queue, train_future, relay, emitted,
                   delivered>>

\* the event loop runs the callback that was scheduled first
LoopCallback ==
    /\ ready # <<>>
    /\ ready' = Tail(ready)
    /\ IF Head(ready).call = "put_nowait"
       THEN /\ message_queue' = Append(message_queue, Head(ready).msg)
            /\ UNCHANGED train_future
       ELSE /\ train_future' = IF Head(ready).call = "set_result"
                               THEN "result" ELSE "exception"
            /\ UNCHANGED message_queue
    /\ UNCHANGED <<thread, relay, stop_event, emitted, delivered>>

\* await ws_callback(msg), called by the event loop
ws_callback(msg) == Append(delivered, [msg |-> msg, by |-> "event loop"])

\* message_queue.get() has a message: it is handed to ws_callback, and a
\* terminal message ends the relay loop
Relayed(done) ==
    /\ delivered' = ws_callback(Head(message_queue))
    /\ message_queue' = Tail(message_queue)
    /\ relay' = [relay EXCEPT !.at = IF IsTerminal(Head(message_queue))
                                     THEN "finally" ELSE "top",
                              !.done = done]

\* top of the relay loop: done is read, then the queue; an empty queue
\* makes wait_for wait
RelayPoll ==
    /\ relay.at = "top"
    /\ IF message_queue # <<>>
       THEN Relayed(train_future # "pending")
       ELSE /\ relay' = [relay EXCEPT !.at = "wait",
                                      !.done = train_future # "pending"]
            /\ UNCHANGED <<message_queue, delivered>>
    /\ UNCHANGED <<thread, ready, train_future, stop_event, emitted>>

\* a message arrives within the 0.5 seconds
RelayGet ==
    /\ relay.at = "wait"
    /\ message_queue # <<>>
    /\ Relayed(relay.done)
    /\ UNCHANGED <<thread, ready, train_future, stop_event, emitted>>

\* asyncio.TimeoutError: with done read as true the queue is drained
RelayTimeout ==
    /\ relay.at = "wait"
    /\ relay' = [relay EXCEPT !.at = IF relay.done THEN "drain" ELSE "top",
                              !.timed_out = TRUE]
    /\ UNCHANGED <<thread, ready, message_queue, train_future, stop_event,
                   emitted, delivered>>

\* the drain loop: every message left, whatever its type, then break
RelayDrain ==
    /\ relay.at = "drain"
    /\ IF message_queue = <<>>
       THEN /\ relay' = [relay EXCEPT !.at = "finally"]
            /\ UNCHANGED <<message_queue, delivered>>
       ELSE /\ delivered' = ws_callback(Head(message_queue))
            /\ message_queue' = Tail(message_queue)
            /\ UNCHANGED relay
    /\ UNCHANGED <<thread, ready, train_future, stop_event, emitted>>

HasExceptionNever(future) == FALSE

\* train_future.exception() is not None
HasException(future) == future = "exception"

\* the finally block: with the thread still running the stop event is set,
\* exception() raises InvalidStateError, which is passed over, and the
\* future is awaited; otherwise the exception of the thread is sent as an
\* 'error' message
RelayFinally ==
    /\ relay.at = "finally"
    /\ IF train_future = "pending"
       THEN /\ stop_event' = TRUE
            /\ relay' = [relay EXCEPT !.at = "join"]
            /\ UNCHANGED delivered
       ELSE /\ delivered' = IF HasException(train_future)
                            THEN ws_callback(Msg("error", 0, 0))
                            ELSE delivered
            /\ relay' = [relay EXCEPT !.at = "returned"]
            /\ UNCHANGED stop_event
    /\ UNCHANGED <<thread, ready, message_queue, train_future, emitted>>

\* await train_future: an exception of the thread is passed over
RelayJoin ==
    /\ relay.at = "join"
    /\ train_future # "pending"
    /\ relay' = [relay EXCEPT !.at = "returned"]
    /\ UNCHANGED <<thread, ready, message_queue, train_future, stop_event,
                   emitted, delivered>>

NextRelay ==
    \/ WorkerBuild /\ UNCHANGED <<compileVars, trainVars, normVars>>
    \/ WorkerEpoch /\ UNCHANGED <<compileVars, trainVars, normVars>>
    \/ WorkerBatch /\ UNCHANGED <<compileVars, trainVars, normVars>>
    \/ WorkerValidate /\ UNCHANGED <<compileVars, trainVars, normVars>>
    \/ SetStopEvent /\ UNCHANGED <<compileVars, trainVars, normVars>>
    \/ LoopCallback /\ UNCHANGED <<compileVars, trainVars, normVars>>
    \/ RelayPoll /\ UNCHANGED <<compileVars, trainVars, normVars>>
    \/ RelayGet /\ UNCHANGED <<compileVars, trainVars, normVars>>
    \/ RelayTimeout /\ UNCHANGED <<compileVars, trainVars, normVars>>
    \/ RelayDrain /\ UNCHANGED <<compileVars, trainVars, normVars>>
    \/ RelayFinally /\ UNCHANGED <<compileVars, trainVars, normVars>>
    \/ RelayJoin /\ UNCHANGED <<compileVars, trainVars, normVars>>

SpecRelay == InitRelay /\ [][NextRelay]_vars

-----------------------------------------------------------------------------
(* Properties of the relay *)

\* the messages ws_callback was handed from the queue, in the order of the
\* calls
FromQueue ==
    LET RECURSIVE Of(_)
        Of(seq) ==
            IF seq = <<>> THEN <<>>
            ELSE IF Head(seq).msg.type = "error" THEN Of(Tail(seq))
                 ELSE <<Head(seq).msg>> \o Of(Tail(seq))
    IN  Of(delivered)

IsPrefix(s, t) == Len(s) <= Len(t) /\ SubSeq(t, 1, Len(s)) = s

\* the relay loop has ended
RelayOver == relay.at \in {"finally", "join", "returned"}

\* C24: ws_callback is handed the messages of the worker thread in the
\* order they were sent and each of them once, all of them when the relay
\* loop has ended, the terminal message included; every call of ws_callback
\* is made by the event loop, none by the worker thread
C24_RelayInOrder ==
    /\ IsPrefix(FromQueue, emitted)
    /\ RelayOver => FromQueue = emitted
    /\ \A i \in 1..Len(delivered) : delivered[i].by = "event loop"

\* a stopped training whose messages were all relayed, after a timeout of
\* the relay and with messages that waited in the queue together
C24_Witness ==
    /\ relay.at = "returned"
    /\ relay.timed_out
    /\ Len(emitted) >= 4
    /\ emitted[Len(emitted)].type = "stopped"
    /\ FromQueue = emitted

\* C25: ws_callback is handed nothing after a terminal message, and when
\* train_model has returned it was handed one terminal message, which is
\* 'error' when the worker thread raised
C25_OneTerminal ==
    /\ \A i \in 1..Len(delivered) - 1 : ~IsTerminal(delivered[i].msg)
    /\ relay.at = "returned" =>
           /\ delivered # <<>>
           /\ IsTerminal(delivered[Len(delivered)].msg)
           /\ thread.at = "raised" =>
                  delivered[Len(delivered)].msg.type = "error"

\* the worker thread raised in the second epoch, behind messages that were
\* relayed, and train_model returned
C25_Witness ==
    /\ relay.at = "returned"
    /\ thread.at = "raised"
    /\ thread.epoch = 2
    /\ Len(delivered) >= 3
    /\ delivered[Len(delivered)].msg.type = "error"

====
